---- MODULE Spec2Model ----
(***************************************************************************)
(* Model Scout MCP server: the catalog cache (fetchModels), the two tools   *)
(* (get_model, consider_models) and the tool-call handler.                  *)
(*                                                                         *)
(* Text is a sequence of one-character strings, so that toLowerCase and     *)
(* String.prototype.includes are computed character by character.           *)
(* A JavaScript value that may be null/undefined is a set with at most one  *)
(* element: {} is null/undefined, {v} is the value v.                       *)
(* Money is counted in micro-dollars (1 = $0.000001); NaN is the number a   *)
(* failed parseFloat yields.                                                *)
(***************************************************************************)
EXTENDS Integers, Sequences, FiniteSets, TLC

(* ------------------------------ bounds -------------------------------- *)

\* request slots that may be in flight together
MaxRequests == 2
\* upstream fetch attempts in one behaviour of the cache specification
MaxFetches == 2
\* clock advances in one behaviour of the cache specification
MaxTicks == 2
\* longest catalog built from every arrangement of the pool records
MaxLen == 2
\* longest generated catalog (longer than the default result limit)
MaxLong == 12
\* the longest record list handed to a single function
MaxFnLen == 3

(* ------------------------------- text --------------------------------- *)

UpperCase == <<"A", "B", "C", "D", "E", "F", "G", "H", "I", "J", "K", "L", "M", "N", "O", "P", "Q", "R", "S", "T", "U", "V", "W", "X", "Y", "Z">>
LowerCase == <<"a", "b", "c", "d", "e", "f", "g", "h", "i", "j", "k", "l", "m", "n", "o", "p", "q", "r", "s", "t", "u", "v", "w", "x", "y", "z">>

UpperToLower ==
  [c \in {UpperCase[i] : i \in 1..Len(UpperCase)} |->
     LowerCase[CHOOSE i \in 1..Len(UpperCase) : UpperCase[i] = c]]

toLowerChar(c) == IF c \in DOMAIN UpperToLower THEN UpperToLower[c] ELSE c

toLowerCase(s) == [i \in 1..Len(s) |-> toLowerChar(s[i])]

includes(s, t) ==
  \E i \in 0..(Len(s) - Len(t)) : SubSeq(s, i + 1, i + Len(t)) = t

\* Array.prototype.includes on an array that may be undefined (a?.includes(x))
arrIncludes(optArr, x) ==
  \E a \in optArr : \E i \in 1..Len(a) : a[i] = x

(* ------------------------------ numbers ------------------------------- *)

\* A JavaScript number that comes out of price arithmetic is an IEEE-754 double. It is
\* written [near, ulps]: the double `ulps` units in the last place above the double that is
\* nearest to `near` micro-dollars. Counts (tokens, requests, context lengths) are integers.
Dbl(n) == [near |-> n, ulps |-> 0]

NaN == [near |-> -1, ulps |-> 0]

\* the rounding of a + b, in ulps: 0.000002 + 0.000005 is the double above 0.000007; every
\* other sum of two values the price texts and workloads produce is the nearest double
AddUlps(a, b) == IF a.ulps = 0 /\ b.ulps = 0 /\ {a.near, b.near} = {2, 5} THEN 1 ELSE 0

NumAdd(a, b) ==
  IF a = NaN \/ b = NaN THEN NaN ELSE [near |-> a.near + b.near, ulps |-> AddUlps(a, b)]
\* a - b; the differences that are formed are exact
NumSub(a, b) ==
  IF a = NaN \/ b = NaN THEN NaN ELSE [near |-> a.near - b.near, ulps |-> 0]
\* a * k for a count k; the products that are formed keep the distance of a
NumMul(a, k) ==
  IF a = NaN THEN NaN ELSE [near |-> a.near * k, ulps |-> IF k = 0 THEN 0 ELSE a.ulps]
\* a / k for a count k that divides a
NumDiv(a, k) ==
  IF a = NaN THEN NaN ELSE [near |-> a.near \div k, ulps |-> a.ulps]
\* a < b, false when either side is NaN
NumLt(a, b) ==
  a # NaN /\ b # NaN /\ (a.near < b.near \/ (a.near = b.near /\ a.ulps < b.ulps))
\* a <= b, false when either side is NaN
NumLe(a, b) == a # NaN /\ b # NaN /\ ~NumLt(b, a)
\* a === 0
IsZero(a) == a = Dbl(0)
\* is the number truthy: neither 0 nor NaN
TruthyDbl(a) == a # Dbl(0) /\ a # NaN

\* parseFloat on the price texts the upstream sends
parseFloat(str) ==
  CASE str = "0" -> Dbl(0)
    [] str = "0.0" -> Dbl(0)
    [] str = "0.000001" -> Dbl(1)
    [] str = "0.000002" -> Dbl(2)
    [] str = "0.000005" -> Dbl(5)
    [] OTHER -> NaN

PriceTexts == {"", "0", "0.0", "0.000001", "0.000002", "0.000005", "n/a"}

\* parseFloat(priceStr) : 0 ; the empty string is falsy
parsePrice(optStr) ==
  IF \E s \in optStr : s # "" THEN parseFloat(CHOOSE s \in optStr : TRUE) ELSE Dbl(0)

\* parsePrice on a field that already holds a number: parseFloat gives the number back
parsePriceNumber(optNum) ==
  IF \E n \in optNum : TruthyDbl(n) THEN CHOOSE n \in optNum : TRUE ELSE Dbl(0)

\* pricing.<field>, undefined when the field is missing
PriceField(pricing, f) == IF f \in DOMAIN pricing THEN {pricing[f]} ELSE {}

extractProvider(modelId) ==
  LET cut == IF \E i \in 1..Len(modelId) : modelId[i] = "/"
             THEN (CHOOSE i \in 1..Len(modelId) :
                     modelId[i] = "/" /\ \A j \in 1..(i - 1) : modelId[j] # "/") - 1
             ELSE Len(modelId)
  IN  SubSeq(modelId, 1, cut)

\* mutant: only the prompt price is looked at
isFreePromptOnly(pricing) == IsZero(parsePrice(PriceField(pricing, "prompt")))

isFree(pricing) ==
  /\ IsZero(parsePrice(PriceField(pricing, "prompt")))
  /\ IsZero(parsePrice(PriceField(pricing, "completion")))

Field(rec, f) == IF f \in DOMAIN rec THEN {rec[f]} ELSE {}

EmptyObject == [k \in {} |-> TRUE]

TruthyBool(opt) == \E v \in opt : v = TRUE

\* model.architecture?.input_modalities
inputModalities(model) ==
  UNION {Field(a, "input_modalities") : a \in Field(model, "architecture")}

\* model.architecture?.modality
modalityOf(model) ==
  UNION {Field(a, "modality") : a \in Field(model, "architecture")}

\* x || [] for an array that may be undefined
OrEmpty(optArr) == IF optArr = {} THEN << >> ELSE CHOOSE a \in optArr : TRUE

getCapabilities(model) ==
  LET im == inputModalities(model)
      sp == Field(model, "supported_parameters")
  IN  (IF arrIncludes(im, "image") THEN <<"vision">> ELSE << >>)
      \o (IF \E a \in im : Len(a) > 1 THEN <<"multimodal">> ELSE << >>)
      \o (IF arrIncludes(sp, "tools") THEN <<"tools">> ELSE << >>)
      \o (IF arrIncludes(sp, "reasoning") THEN <<"reasoning">> ELSE << >>)
      \o (IF arrIncludes(sp, "structured_outputs") THEN <<"structured_outputs">> ELSE << >>)

\* x || undefined for a number
OrUndefined(x) == IF TruthyDbl(x) THEN {x} ELSE {}

\* formatModelData throws where it reads a field of a missing pricing object (TypeError)
\* and where toISOString is asked for the text of an invalid date (RangeError)
formatModelDataThrows(model) ==
  IF "pricing" \notin DOMAIN model
  THEN {"Cannot read properties of undefined (reading 'prompt')"}
  ELSE IF "created" \notin DOMAIN model THEN {"Invalid time value"}
  ELSE {}

\* the object formatModelData returns when it does not throw; a field whose value is
\* undefined is not in the object
formatModelData(model) ==
  LET promptPrice == parsePrice(PriceField(model.pricing, "prompt"))
      completionPrice == parsePrice(PriceField(model.pricing, "completion"))
  IN  [id |-> model.id,
       name |-> model.name,
       provider |-> extractProvider(model.id),
       context_length |-> model.context_length,
       max_completion_tokens |->
         {n \in UNION {Field(t, "max_completion_tokens") : t \in Field(model, "top_provider")} :
            n # 0},
       created |-> <<"ISO", model.created * 1000>>,
       modality |-> modalityOf(model),
       input_modalities |-> OrEmpty(inputModalities(model)),
       supported_parameters |-> OrEmpty(Field(model, "supported_parameters")),
       pricing |-> [prompt |-> promptPrice,
                    completion |-> completionPrice,
                    prompt_per_1m |-> NumMul(promptPrice, 1000000),
                    completion_per_1m |-> NumMul(completionPrice, 1000000),
                    total_per_1m |-> NumMul(NumAdd(promptPrice, completionPrice), 1000000),
                    request |-> OrUndefined(parsePrice(PriceField(model.pricing, "request"))),
                    image |-> OrUndefined(parsePrice(PriceField(model.pricing, "image")))],
       is_moderated |-> \E t \in Field(model, "top_provider") :
                          TruthyBool(Field(t, "is_moderated")),
       is_free |-> isFree(model.pricing)]
      @@ (IF "canonical_slug" \in DOMAIN model
          THEN "canonical_slug" :> model.canonical_slug ELSE EmptyObject)
      @@ (IF "description" \in DOMAIN model
          THEN "description" :> model.description ELSE EmptyObject)

(* ----------------------------- get_model ------------------------------ *)

\* mutant: the display name is not searched
getModelMatchesNoName(m, modelId) ==
  \/ m.id = modelId
  \/ Field(m, "canonical_slug") = {modelId}
  \/ toLowerCase(m.id) = toLowerCase(modelId)

\* the predicate of models.find in getModel
getModelMatches(m, modelId) ==
  \/ m.id = modelId
  \/ Field(m, "canonical_slug") = {modelId}
  \/ toLowerCase(m.id) = toLowerCase(modelId)
  \/ includes(toLowerCase(m.name), toLowerCase(modelId))

\* Array.prototype.find: the first element satisfying the predicate, or undefined
getModelFind(models, modelId) ==
  IF \E i \in 1..Len(models) : getModelMatches(models[i], modelId)
  THEN {models[CHOOSE i \in 1..Len(models) :
                 /\ getModelMatches(models[i], modelId)
                 /\ \A j \in 1..(i - 1) : ~getModelMatches(models[j], modelId)]}
  ELSE {}

\* getModel after fetchModels has returned `models`: a record, or the thrown Error
getModel(models, modelId) ==
  LET model == getModelFind(models, modelId)
  IN  IF model = {}
      THEN [threw |-> TRUE, error |-> <<"Model not found: ", modelId>>]
      ELSE IF \E m \in model : formatModelDataThrows(m) # {}
      THEN [threw |-> TRUE,
            error |-> CHOOSE e \in formatModelDataThrows(CHOOSE m \in model : TRUE) : TRUE]
      ELSE [threw |-> FALSE, value |-> formatModelData(CHOOSE m \in model : TRUE)]

(* ------------------------------ filters ------------------------------- *)

\* { ...a, ...b }
Spread(a, b) == [k \in DOMAIN a \cup DOMAIN b |-> IF k \in DOMAIN b THEN b[k] ELSE a[k]]

\* is a count or limit the caller passed truthy (JSON carries no NaN)
TruthyNum(opt) == \E v \in opt : v # 0
\* a provider filter is [isArray |-> FALSE, text |-> string] or [isArray |-> TRUE, list |-> array];
\* an empty string is falsy, every array is truthy
TruthyProvider(opt) == \E v \in opt : v.isArray \/ v.text # << >>
ProviderList(v) == IF v.isArray THEN v.list ELSE <<v.text>>

totalPrice(m) ==
  NumAdd(parsePrice(PriceField(m.pricing, "prompt")),
         parsePrice(PriceField(m.pricing, "completion")))

\* if (filters.provider) filtered = filtered.filter(...)
filterProvider(filtered, filters) ==
  IF TruthyProvider(Field(filters, "provider"))
  THEN SelectSeq(filtered, LAMBDA m :
         \E i \in 1..Len(ProviderList(filters["provider"])) :
           toLowerCase(extractProvider(m.id))
             = toLowerCase(ProviderList(filters["provider"])[i]))
  ELSE filtered

\* mutant: the kept records are collected by putting each in front of the ones before
filterFreeOnlyPrepending(filtered, filters) ==
  IF TruthyBool(Field(filters, "free_only"))
  THEN [i \in 1..Len(SelectSeq(filtered, LAMBDA m : isFree(m.pricing))) |->
          SelectSeq(filtered, LAMBDA m : isFree(m.pricing))
            [Len(SelectSeq(filtered, LAMBDA m : isFree(m.pricing))) + 1 - i]]
  ELSE filtered

filterFreeOnly(filtered, filters) ==
  IF TruthyBool(Field(filters, "free_only"))
  THEN SelectSeq(filtered, LAMBDA m : isFree(m.pricing))
  ELSE filtered

filterMinContext(filtered, filters) ==
  IF TruthyNum(Field(filters, "min_context"))
  THEN SelectSeq(filtered, LAMBDA m : m.context_length >= filters["min_context"])
  ELSE filtered

filterMaxContext(filtered, filters) ==
  IF TruthyNum(Field(filters, "max_context"))
  THEN SelectSeq(filtered, LAMBDA m : m.context_length <= filters["max_context"])
  ELSE filtered

filterMaxPrice(filtered, filters) ==
  IF TruthyNum(Field(filters, "max_price_per_1m"))
  THEN SelectSeq(filtered, LAMBDA m :
         NumLe(NumMul(totalPrice(m), 1000000), Dbl(filters["max_price_per_1m"])))
  ELSE filtered

filterHasVision(filtered, filters) ==
  IF TruthyBool(Field(filters, "has_vision"))
  THEN SelectSeq(filtered, LAMBDA m : arrIncludes(inputModalities(m), "image"))
  ELSE filtered

filterHasTools(filtered, filters) ==
  IF TruthyBool(Field(filters, "has_tools"))
  THEN SelectSeq(filtered, LAMBDA m : arrIncludes(Field(m, "supported_parameters"), "tools"))
  ELSE filtered

filterHasReasoning(filtered, filters) ==
  IF TruthyBool(Field(filters, "has_reasoning"))
  THEN SelectSeq(filtered, LAMBDA m :
         arrIncludes(Field(m, "supported_parameters"), "reasoning"))
  ELSE filtered

filterModality(filtered, filters) ==
  IF \E v \in Field(filters, "modality") : v # ""
  THEN SelectSeq(filtered, LAMBDA m : modalityOf(m) = {filters["modality"]})
  ELSE filtered

\* mutant: the filters take the failing records out of the array they were given
applyFiltersInputInPlace(models, filters) ==
  filterModality(
    filterHasReasoning(
      filterHasTools(
        filterHasVision(
          filterMaxPrice(
            filterMaxContext(
              filterMinContext(
                filterFreeOnly(
                  filterProvider(models, filters),
                  filters), filters), filters), filters), filters), filters), filters), filters)

\* the caller's array after applyFilters has run: the function works on a copy
\* ([...models]) and Array.prototype.filter builds new arrays
applyFiltersInput(models, filters) == models

\* the filters are applied one after another, each to the result of the one before
applyFilters(models, filters) ==
  filterModality(
    filterHasReasoning(
      filterHasTools(
        filterHasVision(
          filterMaxPrice(
            filterMaxContext(
              filterMinContext(
                filterFreeOnly(
                  filterProvider(models, filters),
                  filters), filters), filters), filters), filters), filters), filters), filters)

\* applyFilters throws a TypeError where isFree or the price filter reads a field of a
\* missing pricing object: the free_only filter on what the provider filter left, the
\* price filter on what the filters before it left
applyFiltersThrows(models, filters) ==
  IF TruthyBool(Field(filters, "free_only"))
  THEN \E i \in 1..Len(filterProvider(models, filters)) :
         "pricing" \notin DOMAIN filterProvider(models, filters)[i]
  ELSE /\ TruthyNum(Field(filters, "max_price_per_1m"))
       /\ \E i \in 1..Len(filterMaxContext(filterMinContext(filterProvider(models, filters),
                                                            filters), filters)) :
            "pricing" \notin DOMAIN filterMaxContext(filterMinContext(
                                      filterProvider(models, filters), filters), filters)[i]

(* --------------------------- intent parser ---------------------------- *)

KW ==
  [cheap |-> <<"c", "h", "e", "a", "p">>,
   affordable |-> <<"a", "f", "f", "o", "r", "d", "a", "b", "l", "e">>,
   low_cost |-> <<"l", "o", "w", " ", "c", "o", "s", "t">>,
   free |-> <<"f", "r", "e", "e">>,
   vision |-> <<"v", "i", "s", "i", "o", "n">>,
   image |-> <<"i", "m", "a", "g", "e">>,
   multimodal |-> <<"m", "u", "l", "t", "i", "m", "o", "d", "a", "l">>,
   tool |-> <<"t", "o", "o", "l">>,
   tools |-> <<"t", "o", "o", "l", "s">>,
   function |-> <<"f", "u", "n", "c", "t", "i", "o", "n">>,
   reasoning |-> <<"r", "e", "a", "s", "o", "n", "i", "n", "g">>,
   think |-> <<"t", "h", "i", "n", "k">>,
   instruct |-> <<"i", "n", "s", "t", "r", "u", "c", "t">>,
   chat |-> <<"c", "h", "a", "t">>,
   long_context |-> <<"l", "o", "n", "g", " ", "c", "o", "n", "t", "e", "x", "t">>,
   large_context |-> <<"l", "a", "r", "g", "e", " ", "c", "o", "n", "t", "e", "x", "t">>,
   openai |-> <<"o", "p", "e", "n", "a", "i">>,
   anthropic |-> <<"a", "n", "t", "h", "r", "o", "p", "i", "c">>,
   claude |-> <<"c", "l", "a", "u", "d", "e">>,
   gpt |-> <<"g", "p", "t">>,
   meta |-> <<"m", "e", "t", "a">>,
   llama |-> <<"l", "l", "a", "m", "a">>,
   google |-> <<"g", "o", "o", "g", "l", "e">>,
   gemini |-> <<"g", "e", "m", "i", "n", "i">>]

providerKeywords ==
  <<KW.openai, KW.anthropic, KW.claude, KW.gpt, KW.meta, KW.llama, KW.google, KW.gemini>>

parseRequest(request) ==
  LET lower == toLowerCase(request)
      cost == includes(lower, KW.cheap) \/ includes(lower, KW.affordable)
                \/ includes(lower, KW.low_cost)
      free == includes(lower, KW.free)
      vision == includes(lower, KW.vision) \/ includes(lower, KW.image)
                  \/ includes(lower, KW.multimodal)
      tool == includes(lower, KW.tool) \/ includes(lower, KW.function)
      reasoning == includes(lower, KW.reasoning) \/ includes(lower, KW.think)
      longctx == includes(lower, KW.long_context) \/ includes(lower, KW.large_context)
      fFree == IF free THEN "free_only" :> TRUE ELSE EmptyObject
      fVision == IF vision THEN "has_vision" :> TRUE ELSE EmptyObject
      fTools == IF tool THEN "has_tools" :> TRUE ELSE EmptyObject
      fReasoning == IF reasoning THEN "has_reasoning" :> TRUE ELSE EmptyObject
      fContext == IF longctx THEN "min_context" :> 100000 ELSE EmptyObject
  IN  [filters |-> Spread(Spread(Spread(Spread(fFree, fVision), fTools), fReasoning), fContext),
       search_terms |->
            (IF vision THEN <<KW.vision, KW.multimodal>> ELSE << >>)
         \o (IF tool THEN <<KW.tools, KW.function>> ELSE << >>)
         \o (IF reasoning THEN <<KW.reasoning>> ELSE << >>)
         \o (IF includes(lower, KW.instruct) THEN <<KW.instruct>> ELSE << >>)
         \o (IF includes(lower, KW.chat) THEN <<KW.chat>> ELSE << >>)
         \o SelectSeq(providerKeywords, LAMBDA p : includes(lower, p)),
       sort_preference |-> IF longctx THEN "context" ELSE IF cost THEN "price" ELSE "relevance",
       understood_as |-> IF free THEN "free models only"
                         ELSE IF cost THEN "cost-optimized search" ELSE ""]

(* ------------------------- search and sorting -------------------------- *)

\* `${model.name} ${model.description} ${model.id}`.toLowerCase()
searchableText(model) ==
  toLowerCase(model.name \o <<" ">>
                \o (IF "description" \in DOMAIN model THEN model.description
                    ELSE <<"u", "n", "d", "e", "f", "i", "n", "e", "d">>)
                \o <<" ">> \o model.id)

\* mutant: a record scores 1 as soon as any term is found
searchScoreAnyTerm(model, searchTerms) ==
  IF \E i \in 1..Len(searchTerms) :
       includes(searchableText(model), toLowerCase(searchTerms[i]))
  THEN 1 ELSE 0

searchScore(model, searchTerms) ==
  Cardinality({i \in 1..Len(searchTerms) :
                 includes(searchableText(model), toLowerCase(searchTerms[i]))})

searchModels(models, searchTerms) ==
  IF Len(searchTerms) = 0
  THEN [i \in 1..Len(models) |-> [model |-> models[i], score |-> 1]]
  ELSE SelectSeq([i \in 1..Len(models) |->
                    [model |-> models[i], score |-> searchScore(models[i], searchTerms)]],
                 LAMBDA item : item.score > 0)

(* ------------------------------ workload ------------------------------ *)

\* breakdown.<key> = amount; totalCost += amount
costAdded(acc, key, amount) ==
  [total |-> NumAdd(acc.total, amount), breakdown |-> Spread(acc.breakdown, key :> amount)]

\* breakdown.<key> = amount, the total is left alone
costNoted(acc, key, amount) ==
  [total |-> acc.total, breakdown |-> Spread(acc.breakdown, key :> amount)]

\* parsePrice(pricing.request) || 0
requestCost(pricing) == parsePriceNumber(pricing.request)

costPrompt(acc, pricing, workload) ==
  IF TruthyNum(Field(workload, "prompt_tokens"))
  THEN costAdded(acc, "prompt_cost",
                 NumMul(parsePriceNumber({pricing.prompt}), workload["prompt_tokens"]))
  ELSE acc

costCompletion(acc, pricing, workload) ==
  IF TruthyNum(Field(workload, "completion_tokens"))
  THEN costAdded(acc, "completion_cost",
                 NumMul(parsePriceNumber({pricing.completion}), workload["completion_tokens"]))
  ELSE acc

\* the daily fee is added to the total; thirty times it is put into the breakdown as well
costDaily(acc, pricing, workload) ==
  IF TruthyNum(Field(workload, "requests_per_day"))
  THEN costAdded(
         costNoted(acc, "monthly_request_cost",
                   NumMul(NumMul(requestCost(pricing), workload["requests_per_day"]), 30)),
         "daily_request_cost", NumMul(requestCost(pricing), workload["requests_per_day"]))
  ELSE acc

costMonthly(acc, pricing, workload) ==
  IF TruthyNum(Field(workload, "requests_per_month"))
  THEN costAdded(acc, "monthly_request_cost",
                 NumMul(requestCost(pricing), workload["requests_per_month"]))
  ELSE acc

costImages(acc, pricing, workload) ==
  IF TruthyNum(Field(workload, "images"))
  THEN costAdded(acc, "image_cost", NumMul(parsePriceNumber(pricing.image), workload["images"]))
  ELSE acc

\* workload.requests_per_day || workload.requests_per_month / 30
costDenominator(workload) ==
  IF TruthyNum(Field(workload, "requests_per_day"))
  THEN workload["requests_per_day"] ELSE workload["requests_per_month"] \div 30

\* the object calculateCost returns; an undefined field is the empty set
costResult(acc, workload) ==
  [total |-> acc.total,
   breakdown |-> acc.breakdown,
   daily |-> IF TruthyNum(Field(workload, "requests_per_day")) THEN {acc.total} ELSE {},
   monthly |-> IF TruthyNum(Field(workload, "requests_per_day")) THEN {NumMul(acc.total, 30)}
               ELSE IF TruthyNum(Field(workload, "requests_per_month")) THEN {acc.total}
               ELSE {},
   per_request |-> IF TruthyNum(Field(workload, "requests_per_day"))
                      \/ TruthyNum(Field(workload, "requests_per_month"))
                   THEN {NumDiv(acc.total, costDenominator(workload))} ELSE {}]

\* calculateCost on a formatted model
calculateCost(model, workload) ==
  costResult(
    costImages(
      costMonthly(
        costDaily(
          costCompletion(
            costPrompt([total |-> Dbl(0), breakdown |-> EmptyObject], model.pricing, workload),
            model.pricing, workload),
          model.pricing, workload),
        model.pricing, workload),
      model.pricing, workload),
    workload)

(* ------------------------------ sorting -------------------------------- *)

\* Array.prototype.sort as V8 runs it on an array of fewer than 64 elements: the longest
\* leading run is taken as it is (turned round when it descends strictly), then every
\* further element is put into the sorted part at the place a binary search finds.
\* gt(a, b) is "the comparator's result for (a, b) is positive"; the comparators are
\* antisymmetric, so the result for (b, a) is then negative; a NaN result counts as 0.
\* With a consistent comparator this is the stable sort.
ArraySort(array, gt(_, _)) ==
  CHOOSE sorted \in
    {LET n == Len(arr)
         RunHolds(k, descending) ==
           \A i \in 2..(k - 1) : gt(arr[i], arr[i + 1]) = descending
         RunLength(descending) ==
           CHOOSE k \in 2..n :
             RunHolds(k, descending) /\ (k = n \/ ~RunHolds(k + 1, descending))
         Insert(t, e) ==
           LET Place[left \in 0..Len(t), right \in 0..Len(t)] ==
                 IF left >= right THEN left
                 ELSE IF gt(t[left + (right - left) \div 2 + 1], e)
                      THEN Place[left, left + (right - left) \div 2]
                      ELSE Place[left + (right - left) \div 2 + 1, right]
           IN  CHOOSE put \in {SubSeq(t, 1, at) \o <<e>> \o SubSeq(t, at + 1, Len(t)) :
                               at \in {Place[0, Len(t)]}} : TRUE
         F[i \in 0..n] ==
           IF i < 2 THEN SubSeq(arr, 1, i)
           ELSE IF i <= RunLength(gt(arr[1], arr[2]))
           THEN IF gt(arr[1], arr[2]) THEN [j \in 1..i |-> arr[i + 1 - j]]
                ELSE SubSeq(arr, 1, i)
           ELSE CHOOSE next \in {Insert(t, arr[i]) : t \in {F[i - 1]}} : TRUE
     IN  F[n] : arr \in {array}} : TRUE

\* a - b > 0 for numbers, false when the difference is NaN
NumGt(a, b) == NumLt(b, a)

\* the collation order of the characters names are written with: space, punctuation,
\* digits, letters; upper and lower case differ only at the last level
CollationOrder == <<" ", "/", "0", "1", "2", "3", "4", "5", "6", "7", "8", "9", "a", "b", "c", "d", "e", "f", "g", "h", "i", "j", "k", "l", "m", "n", "o", "p", "q", "r", "s", "t", "u", "v", "w", "x", "y", "z">>

CollationRank(c) == CHOOSE i \in 1..Len(CollationOrder) : CollationOrder[i] = toLowerChar(c)

\* String.prototype.localeCompare: is a.localeCompare(b) positive
localeCompareGt(a, b) ==
  LET la == Len(a)
      lb == Len(b)
      m == IF la < lb THEN la ELSE lb
      differ == {i \in 1..m : CollationRank(a[i]) # CollationRank(b[i])}
      caseDiffer == {i \in 1..m : a[i] # b[i]}
  IN  IF differ # {}
      THEN LET i == CHOOSE j \in differ : \A k \in differ : j <= k
           IN  CollationRank(a[i]) > CollationRank(b[i])
      ELSE IF la # lb THEN la > lb
      ELSE IF caseDiffer # {}
      THEN LET i == CHOOSE j \in caseDiffer : \A k \in caseDiffer : j <= k
           IN  a[i] \in DOMAIN UpperToLower
      ELSE FALSE

\* mutant: the newest come first by turning the list round
sortModelsNewestByReverse(models, sortBy) ==
  CASE sortBy = "price" -> ArraySort(models, LAMBDA a, b : NumGt(totalPrice(a), totalPrice(b)))
    [] sortBy = "context" -> ArraySort(models, LAMBDA a, b : b.context_length > a.context_length)
    [] sortBy = "created" -> [i \in 1..Len(models) |-> models[Len(models) + 1 - i]]
    [] sortBy = "name" -> ArraySort(models, LAMBDA a, b : localeCompareGt(a.name, b.name))
    [] OTHER -> models

sortModels(models, sortBy) ==
  CASE sortBy = "price" -> ArraySort(models, LAMBDA a, b : NumGt(totalPrice(a), totalPrice(b)))
    [] sortBy = "context" -> ArraySort(models, LAMBDA a, b : b.context_length > a.context_length)
    [] sortBy = "created" -> ArraySort(models, LAMBDA a, b : b.created > a.created)
    [] sortBy = "name" -> ArraySort(models, LAMBDA a, b : localeCompareGt(a.name, b.name))
    [] OTHER -> models

\* the price comparator throws a TypeError on a record without a pricing object; it is
\* called as soon as there are two records
sortModelsThrows(models, sortBy) ==
  sortBy = "price" /\ Len(models) > 1 /\ \E i \in 1..Len(models) : "pricing" \notin DOMAIN models[i]

(* ---------------------------- comparison ------------------------------ *)

\* what a function that may throw gives back
Threw(message) == [threw |-> TRUE, error |-> message]
Gave(value) == [threw |-> FALSE, value |-> value]

\* Number.prototype.toFixed(digits): the text of the number rounded to that many decimals;
\* the text is kept as the rounded amount in micro-dollars and the number of decimals
toFixed(x, digits) ==
  IF x = NaN THEN <<"NaN">>
  ELSE LET unit == IF digits = 2 THEN 10000 ELSE IF digits = 4 THEN 100 ELSE 1
       IN  <<"fixed", digits, ((x.near + unit \div 2) \div unit) * unit>>

\* Number.prototype.toLocaleString(): the digits with group separators
toLocaleString(n) == <<"grouped", n>>

\* the check mark or the cross of a capabilities row
Mark(b) == IF b THEN "yes" ELSE "no"

\* m.pricing.<field>.toFixed reads a property of undefined when the record has no such field
comparisonRowThrows(m) ==
  \/ "pricing" \notin DOMAIN m
  \/ {"prompt_per_1m", "completion_per_1m", "total_per_1m"} \ DOMAIN m.pricing # {}

comparisonPricingRow(m) ==
  <<m.name, toFixed(m.pricing.prompt_per_1m, 2), toFixed(m.pricing.completion_per_1m, 2),
    toFixed(m.pricing.total_per_1m, 2)>>

comparisonCapabilitiesRow(m) ==
  <<m.name, toLocaleString(m.context_length),
    Mark(arrIncludes(inputModalities(m), "image")),
    Mark(arrIncludes(Field(m, "supported_parameters"), "tools")),
    Mark(arrIncludes(Field(m, "supported_parameters"), "reasoning"))>>

comparisonCostRow(m, workload) ==
  <<m.name, toFixed(calculateCost(formatModelData(m), workload).total, 4),
    IF \E p \in calculateCost(formatModelData(m), workload).per_request : TruthyDbl(p)
    THEN toFixed(CHOOSE p \in calculateCost(formatModelData(m), workload).per_request : TRUE, 6)
    ELSE <<"N/A">> >>

\* costs.reduce((min, curr) => curr.cost.total < min.cost.total ? curr : min)
comparisonCostCheapest(models, workload) ==
  LET R[i \in 1..Len(models)] ==
        IF i = 1 THEN 1
        ELSE IF NumLt(calculateCost(formatModelData(models[i]), workload).total,
                      calculateCost(formatModelData(models[R[i - 1]]), workload).total)
             THEN i ELSE R[i - 1]
  IN  models[R[Len(models)]].id

\* models.reduce((min, curr) => currTotal < minTotal ? curr : min)
comparisonCheapest(models) ==
  LET R[i \in 1..Len(models)] ==
        IF i = 1 THEN 1
        ELSE IF NumLt(totalPrice(models[i]), totalPrice(models[R[i - 1]])) THEN i ELSE R[i - 1]
  IN  models[R[Len(models)]].id

comparisonHighestContext(models) ==
  LET R[i \in 1..Len(models)] ==
        IF i = 1 THEN 1
        ELSE IF models[i].context_length > models[R[i - 1]].context_length
             THEN i ELSE R[i - 1]
  IN  models[R[Len(models)]].id

\* ranked by supported_parameters?.length || 0
comparisonMostCapable(models) ==
  LET R[i \in 1..Len(models)] ==
        IF i = 1 THEN 1
        ELSE IF Len(OrEmpty(Field(models[i], "supported_parameters")))
                  > Len(OrEmpty(Field(models[R[i - 1]], "supported_parameters")))
             THEN i ELSE R[i - 1]
  IN  models[R[Len(models)]].id

comparisonCostEstimate(models, optWorkload) ==
  {[rows |-> [i \in 1..Len(models) |-> comparisonCostRow(models[i], w)],
    cheapest |-> comparisonCostCheapest(models, w)] : w \in optWorkload}

\* generateComparison: the rows are built first, then the reductions, which throw on an
\* empty array
generateComparison(models, optWorkload) ==
  IF \E i \in 1..Len(models) : comparisonRowThrows(models[i])
  THEN Threw("Cannot read properties of undefined (reading 'toFixed')")
  ELSE IF Len(models) = 0
  THEN Threw("Reduce of empty array with no initial value")
  ELSE Gave([pricing |-> [i \in 1..Len(models) |-> comparisonPricingRow(models[i])],
             capabilities |-> [i \in 1..Len(models) |-> comparisonCapabilitiesRow(models[i])],
             cost_estimate |-> comparisonCostEstimate(models, optWorkload),
             summary |-> [cheapest |-> comparisonCheapest(models),
                          highest_context |-> comparisonHighestContext(models),
                          most_capable |-> comparisonMostCapable(models)]])

(* --------------------------- consider_models --------------------------- *)

DefaultMaxResults == 10

\* Array.prototype.slice(0, n) for an integer n
SliceFromZero(arr, n) ==
  LET last == IF n >= 0 THEN (IF n < Len(arr) THEN n ELSE Len(arr))
              ELSE (IF Len(arr) + n > 0 THEN Len(arr) + n ELSE 0)
  IN  SubSeq(arr, 1, last)

\* parseRequest(params.request || '')
considerIntent(params) ==
  parseRequest(IF "request" \in DOMAIN params THEN params["request"] ELSE << >>)

\* mutant: the spread is written the other way round, the parsed filters win
considerCombinedFiltersIntentWins(params) ==
  Spread(IF "filters" \in DOMAIN params THEN params["filters"] ELSE EmptyObject,
         considerIntent(params).filters)

\* { ...intent.filters, ...params.filters }
considerCombinedFilters(params) ==
  Spread(considerIntent(params).filters,
         IF "filters" \in DOMAIN params THEN params["filters"] ELSE EmptyObject)

considerModelIdMatches(m, id) ==
  m.id = id \/ Field(m, "canonical_slug") = {id} \/ toLowerCase(m.id) = toLowerCase(id)

\* if (params.model_ids && params.model_ids.length > 0) models = models.filter(...)
considerIdFilter(filtered, params) ==
  IF \E ids \in Field(params, "model_ids") : Len(ids) > 0
  THEN SelectSeq(filtered, LAMBDA m :
         \E i \in 1..Len(params["model_ids"]) :
           considerModelIdMatches(m, params["model_ids"][i]))
  ELSE filtered

considerFiltered(rawModels, params) ==
  considerIdFilter(applyFilters(rawModels, considerCombinedFilters(params)), params)

\* searchResults.map(r => r.model)
considerScoredModels(scored) == [i \in 1..Len(scored) |-> scored[i].model]

\* the keyword search, ordered by score, when the request text gave search terms
considerRanked(filtered, terms) ==
  IF Len(terms) > 0
  THEN considerScoredModels(ArraySort(searchModels(filtered, terms),
                                      LAMBDA a, b : b.score > a.score))
  ELSE filtered

considerSearchResults(rawModels, params) ==
  considerRanked(considerFiltered(rawModels, params), considerIntent(params).search_terms)

\* params.sort_by || intent.sort_preference || 'relevance'
considerSortChoice(params, intent) ==
  IF \E v \in Field(params, "sort_by") : v # ""
  THEN params["sort_by"]
  ELSE IF intent.sort_preference # "" THEN intent.sort_preference ELSE "relevance"

considerSortBy(params) == considerSortChoice(params, considerIntent(params))

considerSorted(rawModels, params) ==
  sortModels(considerSearchResults(rawModels, params), considerSortBy(params))

\* params.max_results || 10
considerMaxResults(params) ==
  IF TruthyNum(Field(params, "max_results")) THEN params["max_results"] ELSE DefaultMaxResults

considerSummary(m) ==
  [id |-> m.id,
   name |-> m.name,
   provider |-> m.provider,
   context_length |-> m.context_length,
   pricing |-> [prompt_per_1m |-> m.pricing.prompt_per_1m,
                completion_per_1m |-> m.pricing.completion_per_1m,
                total_per_1m |-> m.pricing.total_per_1m],
   capabilities |-> getCapabilities([architecture |-> [input_modalities |-> m.input_modalities],
                                     supported_parameters |-> m.supported_parameters]),
   is_free |-> m.is_free,
   estimated_cost |-> m.estimated_cost]

\* filteredModels.map(formatModelData), each with its estimated_cost when a workload is given
considerFormatted(sorted, optWorkload) ==
  [i \in 1..Len(sorted) |->
     formatModelData(sorted[i])
       @@ ("estimated_cost" :>
             {calculateCost(formatModelData(sorted[i]), w) : w \in optWorkload})]

\* results.filter(m => m.estimated_cost).map(m => ({ id, cost })).sort((a, b) => a.cost - b.cost)
considerCosts(results) ==
  ArraySort([i \in 1..Len(SelectSeq(results, LAMBDA m : m.estimated_cost # {})) |->
               [id |-> SelectSeq(results, LAMBDA m : m.estimated_cost # {})[i].id,
                cost |-> (CHOOSE c \in SelectSeq(results, LAMBDA m : m.estimated_cost # {})[i]
                                         .estimated_cost : TRUE).total]],
            LAMBDA a, b : NumGt(a.cost, b.cost))

considerCostSummary(costs) ==
  IF Len(costs) > 0
  THEN {[cheapest_option |-> costs[1],
         most_expensive_option |-> costs[Len(costs)],
         potential_savings |-> NumSub(costs[Len(costs)].cost, costs[1].cost)]}
  ELSE {}

\* if (params.workload && results.length > 0)
considerCostAnalysis(results, optWorkload) ==
  IF optWorkload # {} /\ Len(results) > 0 THEN considerCostSummary(considerCosts(results))
  ELSE {}

\* the response object built from the parsed intent, the formatted list and its slice
considerResponse(intent, combined, formatted, results, fetched) ==
  [interpretation |->
     [understood_as |-> IF intent.understood_as # "" THEN intent.understood_as
                        ELSE "model listing",
      applied_filters |-> combined,
      search_strategy |-> IF Len(intent.search_terms) > 0 THEN "keyword search"
                          ELSE "filtered list",
      search_terms |-> intent.search_terms],
   models |-> [i \in 1..Len(results) |-> considerSummary(results[i])],
   total_models_found |-> Len(formatted),
   models_returned |-> Len(results),
   cache_age |-> IF fetched.cached THEN {fetched.cache_age} ELSE {}]

considerSliced(intent, combined, formatted, params, fetched) ==
  considerResponse(intent, combined, formatted,
                   SliceFromZero(formatted, considerMaxResults(params)), fetched)

\* if (params.model_ids && params.model_ids.length > 1) generateComparison(...)
considerComparison(sorted, params) ==
  IF \E ids \in Field(params, "model_ids") : Len(ids) > 1
  THEN {generateComparison(SliceFromZero(sorted, Len(params["model_ids"])),
                           Field(params, "workload"))}
  ELSE {}

\* the response with its comparison and cost_analysis, unless the comparison threw
considerFinish(response, optComparison, optCostAnalysis) ==
  IF \E c \in optComparison : c.threw
  THEN Threw((CHOOSE c \in optComparison : TRUE).error)
  ELSE Gave(response @@ ("comparison" :> {c.value : c \in optComparison})
                     @@ ("cost_analysis" :> optCostAnalysis))

\* the error of formatModelData on the first record of `sorted` it cannot format, if any
considerFormatThrows(sorted) ==
  IF \E i \in 1..Len(sorted) : formatModelDataThrows(sorted[i]) # {}
  THEN formatModelDataThrows(
         sorted[CHOOSE i \in 1..Len(sorted) :
                  /\ formatModelDataThrows(sorted[i]) # {}
                  /\ \A j \in 1..(i - 1) : formatModelDataThrows(sorted[j]) = {}])
  ELSE {}

\* the error considerModels throws before it has built its response, if any: from the
\* filters, from the sort, or from formatModelData
considerThrows(rawModels, params) ==
  IF applyFiltersThrows(rawModels, considerCombinedFilters(params))
       \/ sortModelsThrows(considerSearchResults(rawModels, params), considerSortBy(params))
  THEN {"Cannot read properties of undefined (reading 'prompt')"}
  ELSE considerFormatThrows(considerSorted(rawModels, params))

\* what considerModels comes to: the first error thrown, or the response
considerOutcome(errors, finished) ==
  IF errors # {} THEN Threw(CHOOSE e \in errors : TRUE) ELSE finished

\* considerModels after fetchModels has returned `fetched`
considerModels(fetched, params) ==
  considerOutcome(
    considerThrows(fetched.models, params),
    considerFinish(
      considerSliced(considerIntent(params), considerCombinedFilters(params),
                     considerFormatted(considerSorted(fetched.models, params),
                                       Field(params, "workload")),
                     params, fetched),
      considerComparison(considerSorted(fetched.models, params), params),
      considerCostAnalysis(
        SliceFromZero(considerFormatted(considerSorted(fetched.models, params),
                                        Field(params, "workload")),
                      considerMaxResults(params)),
        Field(params, "workload"))))

(* ------------------------- upstream catalogs --------------------------- *)

M1 == [id |-> <<"a", "/", "g">>, canonical_slug |-> <<"g", "1">>, name |-> <<"G", "X">>,
       description |-> <<"c", "h", "a", "t">>, context_length |-> 4000, created |-> 100,
       pricing |-> [prompt |-> "0", completion |-> "0"],
       architecture |-> [input_modalities |-> <<"text">>, modality |-> "text->text"],
       supported_parameters |-> <<"tools">>]

M2 == [id |-> <<"g", "x">>, canonical_slug |-> <<"g", "x">>, name |-> <<"B">>,
       description |-> <<"g", "p", "t">>, context_length |-> 200000, created |-> 300,
       pricing |-> [prompt |-> "0.000001", completion |-> "0.000002"],
       architecture |-> [input_modalities |-> <<"text", "image">>,
                         modality |-> "text+image->text"],
       supported_parameters |-> <<"tools", "reasoning">>]

M3 == [id |-> <<"b", "/", "Q">>, canonical_slug |-> <<"b", "q">>, name |-> <<"Q", "a">>,
       description |-> << >>, context_length |-> 128000, created |-> 200,
       pricing |-> [completion |-> "0.0"]]

M4 == [id |-> <<"x", "/", "a">>, canonical_slug |-> <<"x", "a">>, name |-> <<"A", "x">>,
       description |-> <<"c", "h", "a", "t">>, context_length |-> 4000, created |-> 400,
       pricing |-> [prompt |-> "n/a", completion |-> "0"],
       architecture |-> [modality |-> "text->text"],
       supported_parameters |-> << >>]

M5 == [id |-> <<"q">>, canonical_slug |-> <<"q", "5">>, name |-> <<"g", "q">>,
       description |-> << >>, context_length |-> 32000, created |-> 500,
       pricing |-> [prompt |-> "", completion |-> "0.000005"],
       architecture |-> [input_modalities |-> <<"text">>, modality |-> "text->text"],
       supported_parameters |-> <<"reasoning">>]

M6 == [id |-> <<"p", "/", "r">>, canonical_slug |-> <<"p", "r">>, name |-> <<"P", "r">>,
       description |-> << >>, context_length |-> 200000, created |-> 600,
       pricing |-> [prompt |-> "0.000002", completion |-> "0.000005",
                    request |-> "0.000002", image |-> "0.000005"],
       architecture |-> [input_modalities |-> <<"text">>, modality |-> "text->text"],
       supported_parameters |-> <<"tools", "structured_outputs">>]

Pool == {M1, M2, M3, M4, M5, M6}

Digits == <<"1", "2", "3", "4", "5", "6", "7", "8", "9", "a", "b", "c", "d", "e", "f", "h">>

GenModel(i, priced) ==
  [id |-> <<"z", "/", Digits[i]>>, canonical_slug |-> <<"z", Digits[i]>>,
   name |-> <<"Z", Digits[i]>>, description |-> << >>,
   context_length |-> 1000 * i, created |-> i,
   pricing |-> IF priced THEN [prompt |-> "0.000001", completion |-> "0.000001"]
               ELSE [prompt |-> "0", completion |-> "0"],
   architecture |-> [input_modalities |-> <<"text">>, modality |-> "text->text"],
   supported_parameters |-> << >>]

\* every arrangement of up to MaxLen distinct pool records
ShortCatalogs ==
  UNION {{c \in [1..n -> Pool] : \A i, j \in 1..n : i # j => c[i] # c[j]} : n \in 0..MaxLen}

\* catalogs longer than the default result limit; record i is priced when i is in `priced`
LongCatalogs ==
  {[i \in 1..n |-> GenModel(i, i \in priced)] :
     n \in DefaultMaxResults..MaxLong, priced \in {{}, {2}, {1, 11}}}

ToolCatalogs == ShortCatalogs \cup LongCatalogs

CacheCatalogs == {<< >>, <<M1, M2>>}

(* ------------------------------ tool calls ----------------------------- *)

GetModelCall(modelId) == [name |-> "get_model", args |-> ("model_id" :> modelId)]
ConsiderCall(params) == [name |-> "consider_models", args |-> params]
UnknownCall == [name |-> "list_models", args |-> EmptyObject]

LookupIds == {<<"g", "x">>, <<"g", "1">>, <<"b", "/", "q">>, <<"z", "z">>, << >>}

ConsiderParams ==
  {Spread(Spread(Spread("request" :> t, f), m), sb) :
     t \in {<< >>, <<"f", "r", "e", "e">>, <<"c", "h", "e", "a", "p">>},
     f \in {EmptyObject, "filters" :> ("free_only" :> TRUE),
            "filters" :> ("free_only" :> FALSE), "filters" :> ("has_tools" :> TRUE)},
     m \in {EmptyObject, "max_results" :> 0, "max_results" :> 1, "max_results" :> 11},
     sb \in {EmptyObject, "sort_by" :> "price"}}

\* workloads; the counts are round ones, and requests_per_month is a multiple of 30
WorkloadTokens == ("prompt_tokens" :> 500000) @@ ("completion_tokens" :> 500000)
WorkloadDaily == "requests_per_day" :> 500000

Workloads ==
  {EmptyObject,
   WorkloadTokens,
   ("prompt_tokens" :> 0) @@ ("completion_tokens" :> 500000),
   WorkloadDaily,
   ("requests_per_day" :> 500000) @@ ("requests_per_month" :> 15000000),
   ("requests_per_month" :> 15000000) @@ ("images" :> 500000),
   ("prompt_tokens" :> 500000) @@ ("images" :> 500000) @@ ("requests_per_day" :> 500000)}

GenId(i) == <<"z", "/", Digits[i]>>

\* the identifier lists of comparison requests: one, two, two that match nothing, six
IdLists ==
  {<< <<"g", "x">> >>,
   << <<"g", "x">>, <<"a", "/", "g">> >>,
   << <<"p", "/", "r">>, <<"g", "x">> >>,
   << <<"z", "z">>, <<"y", "y">> >>,
   << GenId(1), GenId(2) >>,
   [i \in 1..6 |-> GenId(i)]}

\* requests that name models, and requests that give a workload
CompareParams ==
  {Spread(Spread(("request" :> << >>) @@ ("model_ids" :> ids), m), w) :
     ids \in IdLists,
     m \in {EmptyObject, "max_results" :> 1},
     w \in {EmptyObject, "workload" :> WorkloadTokens}}
    \cup {("request" :> << >>) @@ ("workload" :> w) : w \in {WorkloadTokens, WorkloadDaily}}
    \cup {("request" :> << >>) @@ ("model_ids" :> << >>)}

RefreshParams == ("request" :> << >>) @@ ("force_refresh" :> TRUE)

ToolCalls ==
  {GetModelCall(id) : id \in LookupIds}
    \cup {ConsiderCall(p) : p \in ConsiderParams}
    \cup {ConsiderCall(p) : p \in CompareParams}
    \cup {UnknownCall}

CacheCalls ==
  {GetModelCall(<<"g", "x">>),
   ConsiderCall(RefreshParams),
   ConsiderCall(("request" :> << >>) @@ ("filters" :> ("free_only" :> TRUE)))}

(* ---------------------------- the server ------------------------------- *)

VARIABLES
  modelsCache,   \* the module-level cache object: [data, timestamp], each null ({}) or a
                 \* value; with each field, as history, the fetch that wrote it (0: none)
  clock,         \* Date.now()
  ticks,         \* history: how often the clock has advanced
  nfetch,        \* history: upstream fetch attempts issued so far; a fetch is named by its number
  completed,     \* history: the fetches that completed successfully, in completion order
  slot,          \* the tool calls awaiting their upstream fetch, one per request slot
  response,      \* the outcome of the tool call that returned last
  fnCall,        \* a single function of the module under examination: its name and arguments
  fnResult       \* what that function returned, {} until it has been applied

vars == <<modelsCache, clock, ticks, nfetch, completed, slot, response, fnCall, fnResult>>

CACHE_DURATION_MS == 10 * 60 * 1000

StartTime == 1000 * 1000

\* the clock advances by less than a second, or by half the cache duration
ClockSteps == {700, 300000}

Slots == 1..MaxRequests

\* a call in progress: its arguments, the `now` of its fetchModels, the number of its
\* upstream fetch and how many fetches it has issued
IdleSlot == [pc |-> "idle", call |-> UnknownCall, now |-> 0, fid |-> 0, attempts |-> 0]

\* a returned call: what fetchModels returned to it (nothing if it threw or was not
\* called), the upstream body it read, and the payload the handler returned
NoResponse ==
  [returned |-> FALSE, call |-> UnknownCall, attempts |-> 0,
   body |-> {}, fetched |-> {}, payload |-> {}]

Returned(s, body, fetched, payload) ==
  [returned |-> TRUE, call |-> s.call, attempts |-> s.attempts,
   body |-> body, fetched |-> fetched, payload |-> {payload}]


\* the server after the module has been loaded
ServerInit ==
  /\ modelsCache = [data |-> {}, timestamp |-> {}, dataBy |-> 0, timestampBy |-> 0]
  /\ clock = StartTime
  /\ ticks = 0
  /\ nfetch = 0
  /\ completed = << >>
  /\ slot = [r \in Slots |-> IdleSlot]
  /\ response = NoResponse

Init ==
  /\ ServerInit
  /\ fnCall = [fn |-> "none"]
  /\ fnResult = {}

\* the catch block of the CallToolRequestSchema handler
ErrorPayload(message) == [isError |-> TRUE, content |-> <<"Error: ", message>>]

\* a successful return of the handler: JSON.stringify(result)
ResultPayload(result) == [isError |-> FALSE, content |-> <<"JSON", result>>]

\* the rest of the handler once fetchModels has returned `fetched`
HandlerFinish(call, fetched) ==
  IF call.name = "get_model"
  THEN LET got == getModel(fetched.models, call.args["model_id"])
       IN  IF got.threw THEN ErrorPayload(got.error) ELSE ResultPayload(got.value)
  ELSE LET got == considerModels(fetched, call.args)
       IN  IF got.threw THEN ErrorPayload(got.error) ELSE ResultPayload(got.value)

\* the array fetchModels returned, which is the one the cache holds, once the rest of the
\* handler has run: getModel only searches it, considerModels hands it to applyFilters and
\* works on the arrays that come back
HandlerLeaves(call, models) ==
  IF call.name = "get_model" THEN models
  ELSE applyFiltersInput(models, considerCombinedFilters(call.args))

\* the forceRefresh argument the call passes to fetchModels
CallForceRefresh(call) ==
  call.name = "consider_models" /\ TruthyBool(Field(call.args, "force_refresh"))

\* mutant: the age of the snapshot is not looked at
CacheValidAnyAge(cache, forceRefresh, now) ==
  ~forceRefresh /\ cache.data # {} /\ \E ts \in cache.timestamp : ts # 0

\* fetchModels, lines 234-236: is the cached data returned
CacheValid(cache, forceRefresh, now) ==
  /\ ~forceRefresh
  /\ cache.data # {}
  /\ \E ts \in cache.timestamp : ts # 0 /\ now - ts < CACHE_DURATION_MS

\* mutant: the age is reported in milliseconds
CachedResultMillis(cache, now) ==
  [models |-> CHOOSE d \in cache.data : TRUE,
   cache_age |-> now - (CHOOSE ts \in cache.timestamp : TRUE),
   cached |-> TRUE]

\* fetchModels, lines 237-241
CachedResult(cache, now) ==
  [models |-> CHOOSE d \in cache.data : TRUE,
   cache_age |-> (now - (CHOOSE ts \in cache.timestamp : TRUE)) \div 1000,
   cached |-> TRUE]

\* fetchModels, lines 262-266
FreshResult(records) == [models |-> records, cache_age |-> 0, cached |-> FALSE]

\* mutant: a snapshot once stored is kept
UpdatedCacheKeepFirst(cache, records, now, fid) ==
  IF cache.data # {} THEN cache
  ELSE [data |-> {records}, timestamp |-> {now}, dataBy |-> fid, timestampBy |-> fid]

\* mutant: the two fields are written in separate turns, and the second write is pending
UpdatedCacheTorn(cache, records, now, fid) ==
  [cache EXCEPT !.data = {records}, !.dataBy = fid]

\* mutant: a fetch that started earlier than the stored one does not overwrite it
UpdatedCacheNewestWins(cache, records, now, fid) ==
  IF \E ts \in cache.timestamp : ts > now THEN cache
  ELSE [data |-> {records}, timestamp |-> {now}, dataBy |-> fid, timestampBy |-> fid]

\* fetchModels, lines 258-260: the cache after fetch `fid`, started at `now`, has completed
UpdatedCache(cache, records, now, fid) ==
  [data |-> {records}, timestamp |-> {now}, dataBy |-> fid, timestampBy |-> fid]

\* a tool call arrives: the handler runs until it returns, throws or awaits the fetch.
\* The slots are interchangeable: a call takes the lowest free one.
Start(r, call) ==
  /\ slot[r].pc = "idle"
  /\ \A q \in 1..(r - 1) : slot[q].pc # "idle"
  /\ LET begun == [IdleSlot EXCEPT !.call = call, !.now = clock]
     IN  IF call.name \notin {"get_model", "consider_models"}
         THEN /\ response' = Returned([IdleSlot EXCEPT !.call = call], {}, {},
                                      ErrorPayload(<<"Unknown tool: ", call.name>>))
              /\ UNCHANGED <<modelsCache, nfetch, slot>>
         ELSE IF CacheValid(modelsCache, CallForceRefresh(call), clock)
         THEN /\ response' = Returned(begun, {}, {CachedResult(modelsCache, clock)},
                                      HandlerFinish(call, CachedResult(modelsCache, clock)))
              /\ modelsCache' =
                    [modelsCache EXCEPT
                       !.data = {HandlerLeaves(call, CachedResult(modelsCache, clock).models)}]
              /\ UNCHANGED <<nfetch, slot>>
         ELSE /\ nfetch < MaxFetches
              /\ nfetch' = nfetch + 1
              /\ slot' = [slot EXCEPT ![r] =
                    [begun EXCEPT !.pc = "fetch", !.fid = nfetch + 1, !.attempts = 1]]
              /\ UNCHANGED <<modelsCache, response>>
  /\ UNCHANGED <<clock, ticks, completed>>

\* the upstream answers with a status: response.ok or not
FetchResponse(r, ok) ==
  /\ slot[r].pc = "fetch"
  /\ IF ok
     THEN /\ slot' = [slot EXCEPT ![r].pc = "json"]
          /\ UNCHANGED response
     ELSE /\ slot' = [slot EXCEPT ![r] = IdleSlot]
          /\ response' = Returned(slot[r], {}, {}, ErrorPayload("OpenRouter API error"))
  /\ UNCHANGED <<modelsCache, clock, ticks, nfetch, completed>>

\* mutant: the failure is handled by dropping the snapshot
FetchRejectClearing(r) ==
  /\ slot[r].pc = "fetch"
  /\ slot' = [slot EXCEPT ![r] = IdleSlot]
  /\ response' = Returned(slot[r], {}, {}, ErrorPayload("fetch failed"))
  /\ modelsCache' = [modelsCache EXCEPT !.data = {}, !.timestamp = {}]
  /\ UNCHANGED <<clock, ticks, nfetch, completed>>

\* the transport fails: fetch rejects
FetchReject(r) ==
  /\ slot[r].pc = "fetch"
  /\ slot' = [slot EXCEPT ![r] = IdleSlot]
  /\ response' = Returned(slot[r], {}, {}, ErrorPayload("fetch failed"))
  /\ UNCHANGED <<modelsCache, clock, ticks, nfetch, completed>>

\* response.json() resolves with the catalog: the cache is updated and the handler finishes
JsonResolve(r, records) ==
  /\ slot[r].pc = "json"
  /\ modelsCache' =
       UpdatedCache(modelsCache, HandlerLeaves(slot[r].call, records), slot[r].now, slot[r].fid)
  /\ completed' = Append(completed, slot[r].fid)
  /\ slot' = [slot EXCEPT ![r] = IdleSlot]
  /\ response' = Returned(slot[r], {records}, {FreshResult(records)},
                          HandlerFinish(slot[r].call, FreshResult(records)))
  /\ UNCHANGED <<clock, ticks, nfetch>>

\* the body cannot be read: response.json() rejects
JsonReject(r) ==
  /\ slot[r].pc = "json"
  /\ slot' = [slot EXCEPT ![r] = IdleSlot]
  /\ response' = Returned(slot[r], {}, {}, ErrorPayload("invalid json"))
  /\ UNCHANGED <<modelsCache, clock, ticks, nfetch, completed>>

Tick(d) ==
  /\ ticks < MaxTicks
  /\ clock' = clock + d
  /\ ticks' = ticks + 1
  /\ UNCHANGED <<modelsCache, nfetch, completed, slot, response>>

\* concurrent requests against a small set of calls and catalogs
Next ==
  /\ UNCHANGED <<fnCall, fnResult>>
  /\ \/ \E r \in Slots, call \in CacheCalls : Start(r, call)
     \/ \E r \in Slots, ok \in BOOLEAN : FetchResponse(r, ok)
     \/ \E r \in Slots : FetchReject(r)
     \/ \E r \in Slots, records \in CacheCatalogs : JsonResolve(r, records)
     \/ \E r \in Slots : JsonReject(r)
     \/ \E d \in ClockSteps : Tick(d)

Spec == Init /\ [][Next]_vars

\* the caller takes the response
TakeResponse ==
  /\ response.returned
  /\ response' = NoResponse
  /\ UNCHANGED <<modelsCache, clock, ticks, nfetch, completed, slot>>

\* one request at a time against every call and catalog: the caller takes each response
\* before it sends the next call
NextTool ==
  /\ UNCHANGED <<fnCall, fnResult>>
  /\ \/ \E call \in ToolCalls : ~response.returned /\ Start(1, call)
     \/ TakeResponse
     \/ \E ok \in BOOLEAN : FetchResponse(1, ok)
     \/ FetchReject(1)
     \/ \E records \in ToolCatalogs : JsonResolve(1, records)
     \/ JsonReject(1)

SpecTool == Init /\ [][NextTool]_vars

(* ------------------------------- claims -------------------------------- *)

FetchingTool(call) == call.name \in {"get_model", "consider_models"}

\* a snapshot is stored and is younger than the cache duration
SnapshotFresh ==
  /\ modelsCache.data # {}
  /\ \E ts \in modelsCache.timestamp : clock - ts < CACHE_DURATION_MS

\* this step is a call that returns without awaiting anything
ReturnsAtOnce ==
  /\ slot' = slot
  /\ response' # response
  /\ response'.returned
  /\ FetchingTool(response'.call)

\* this step is a call of slot r that goes to the upstream
FetchIssued(r) == slot[r].pc = "idle" /\ slot'[r].pc = "fetch"

\* this step ends the fetch of slot r
FetchEnded(r) == slot[r].pc \in {"fetch", "json"} /\ slot'[r].pc = "idle"

\* C1: a call without forceRefresh that finds a snapshot younger than the TTL returns that
\* snapshot's records with cached = true and cache_age = the whole seconds elapsed, issues
\* no upstream fetch and leaves the stored snapshot as it is.
C1_CacheHit ==
  [][/\ (ReturnsAtOnce /\ ~CallForceRefresh(response'.call) /\ SnapshotFresh)
          => /\ \E f \in response'.fetched, ts \in modelsCache.timestamp :
                  /\ response'.fetched = {f}
                  /\ {f.models} = modelsCache.data
                  /\ f.cached
                  /\ f.cache_age * 1000 <= clock - ts
                  /\ clock - ts < (f.cache_age + 1) * 1000
             /\ response'.attempts = 0
             /\ nfetch' = nfetch
             /\ modelsCache' = modelsCache
     /\ \A r \in Slots :
          (FetchIssued(r) /\ ~CallForceRefresh(slot'[r].call)) => ~SnapshotFresh]_vars

\* C1 witness: a call was served from the cache some whole seconds after the fetch
C1_Witness ==
  /\ response.returned
  /\ response.attempts = 0
  /\ \E f \in response.fetched : f.cached /\ f.cache_age > 0 /\ {f.models} = modelsCache.data

\* C2: a call with forceRefresh, or with no snapshot, or with a snapshot as old as the TTL
\* or older, makes exactly one upstream fetch attempt; when the attempt succeeds the stored
\* snapshot is the fetched records and the call returns them with cached = false, age 0.
C2_CacheMiss ==
  [][/\ ReturnsAtOnce => (~CallForceRefresh(response'.call) /\ SnapshotFresh)
     /\ \A r \in Slots : FetchIssued(r) => (nfetch' = nfetch + 1 /\ slot'[r].attempts = 1)
     /\ nfetch' # nfetch => \E r \in Slots : FetchIssued(r)
     /\ \A r \in Slots :
          (FetchEnded(r) /\ response'.body # {})
            => /\ modelsCache'.data = response'.body
               /\ \E f \in response'.fetched :
                    /\ response'.fetched = {f}
                    /\ {f.models} = response'.body
                    /\ ~f.cached
                    /\ f.cache_age = 0
               /\ response'.attempts = 1
               /\ nfetch' = nfetch]_vars

\* C2 witness: a second fetch has succeeded and its records replaced the stored ones
C2_Witness ==
  /\ response.returned
  /\ response.attempts = 1
  /\ response.body # {}
  /\ modelsCache.data = response.body
  /\ Len(completed) = 2
  /\ \E f \in response.fetched : ~f.cached

C4_WholeSnapshot ==
  /\ modelsCache.dataBy = modelsCache.timestampBy
  /\ (modelsCache.data = {}) <=> (modelsCache.timestamp = {})
  /\ (modelsCache.data = {}) <=> (modelsCache.dataBy = 0)

\* C4 witness: the second fetch has written the cache while the first is still in flight
C4_Witness ==
  /\ modelsCache.dataBy = 2
  /\ modelsCache.data # {}
  /\ \E r \in Slots : slot[r].pc # "idle" /\ slot[r].fid = 1

\* C5: concurrent calls that miss the cache each have a fetch of their own; the stored
\* snapshot is the one of the fetch that succeeded last; a call returns its own fetch's records.
C5_LastWriteWins ==
  /\ \A r, q \in Slots :
       (r # q /\ slot[r].pc # "idle" /\ slot[q].pc # "idle")
         => (slot[r].fid # slot[q].fid /\ slot[r].attempts = 1 /\ slot[q].attempts = 1)
  /\ Len(completed) > 0
       => /\ modelsCache.dataBy = completed[Len(completed)]
          /\ modelsCache.timestampBy = completed[Len(completed)]
  /\ response.body # {} => \A f \in response.fetched : {f.models} = response.body

\* C5 witness: two fetches were in flight together; the one issued first succeeded last
C5_Witness ==
  /\ completed = <<2, 1>>
  /\ modelsCache.dataBy = 1
  /\ response.body = modelsCache.data

\* the records fetchModels returned to the call that returned last
RespModels == (CHOOSE f \in response.fetched : TRUE).models

RespPayload == CHOOSE p \in response.payload : TRUE

\* the value the handler serialised
RespValue == RespPayload.content[2]

Ids(records) == [i \in 1..Len(records) |-> records[i].id]

GetModelReturned ==
  response.returned /\ response.call.name = "get_model" /\ response.fetched # {}

\* consider_models has ended, with a response or with an error
ConsiderEnded ==
  response.returned /\ response.call.name = "consider_models" /\ response.fetched # {}

ConsiderReturned == ConsiderEnded /\ ~RespPayload.isError

\* C6: get_model returns a record whose id equals the identifier if the snapshot holds one;
\* otherwise one whose canonical_slug equals it; otherwise one whose id equals it ignoring
\* case; otherwise one whose name contains it ignoring case.
C6_LookupPriority ==
  GetModelReturned =>
    LET id == response.call.args["model_id"]
        models == RespModels
        idx == 1..Len(models)
    IN  IF \E i \in idx : models[i].id = id
        THEN ~RespPayload.isError /\ RespValue.id = id
        ELSE IF \E i \in idx : models[i].canonical_slug = id
        THEN ~RespPayload.isError /\ RespValue.canonical_slug = id
        ELSE IF \E i \in idx : toLowerCase(models[i].id) = toLowerCase(id)
        THEN ~RespPayload.isError /\ toLowerCase(RespValue.id) = toLowerCase(id)
        ELSE IF \E i \in idx : includes(toLowerCase(models[i].name), toLowerCase(id))
        THEN ~RespPayload.isError
               /\ includes(toLowerCase(RespValue.name), toLowerCase(id))
        ELSE TRUE

\* C7: get_model ends in the error "Model not found: <identifier>" exactly when no record
\* of the snapshot matches by id, canonical_slug, case-folded id or name substring; the
\* error is returned as a payload with isError, as is the error for any other tool name.
C7_ModelNotFound ==
  /\ response.returned => response.payload # {}
  /\ GetModelReturned =>
       LET id == response.call.args["model_id"]
           models == RespModels
           noMatch == \A i \in 1..Len(models) :
                        /\ models[i].id # id
                        /\ models[i].canonical_slug # id
                        /\ toLowerCase(models[i].id) # toLowerCase(id)
                        /\ ~includes(toLowerCase(models[i].name), toLowerCase(id))
       IN  /\ RespPayload.isError <=> noMatch
           /\ RespPayload.isError
                => RespPayload.content = <<"Error: ", <<"Model not found: ", id>>>>
  /\ (response.returned /\ ~FetchingTool(response.call)) => RespPayload.isError

\* C7 witness: a lookup in a snapshot that holds records has ended in "Model not found"
C7_Witness ==
  /\ GetModelReturned
  /\ Len(RespModels) > 0
  /\ RespPayload.isError
  /\ response.call.args["model_id"] = <<"z", "z">>

ZeroPriceText(opt) == opt \subseteq {"", "0", "0.0"}

ZeroPriced(m) ==
  /\ ZeroPriceText(PriceField(m.pricing, "prompt"))
  /\ ZeroPriceText(PriceField(m.pricing, "completion"))

FreeOnlyCall == ConsiderCall(("request" :> << >>) @@ ("filters" :> ("free_only" :> TRUE)))

\* C9 as claimed: consider_models with filters {free_only: true}, nothing else and an empty
\* text returns all the records whose prompt and completion price are zero, in snapshot order.
C9_FreeOnlyAll ==
  (ConsiderReturned /\ response.call = FreeOnlyCall)
    => Ids(RespValue.models) = Ids(SelectSeq(RespModels, ZeroPriced))

\* C9 amended: that call returns the first min(k, 10) of the k records whose prompt and
\* completion price are zero, in snapshot order, and reports total_models_found = k.
C9_FreeOnlyFirstTen ==
  (ConsiderReturned /\ response.call = FreeOnlyCall)
    => LET zero == Ids(SelectSeq(RespModels, ZeroPriced))
           k == Len(zero)
       IN  /\ Ids(RespValue.models) = SubSeq(zero, 1, IF k < 10 THEN k ELSE 10)
           /\ RespValue.total_models_found = k

\* C9 witness: more than ten records are free and ten are returned
C9_Witness ==
  /\ ConsiderReturned
  /\ response.call = FreeOnlyCall
  /\ RespValue.total_models_found > 10
  /\ RespValue.models_returned = 10
  /\ \E i \in 1..Len(RespModels) : ~ZeroPriced(RespModels[i])

\* C10: the returned list is the first min(n, max_results) entries of the sorted list of
\* length n, max_results being the supplied value whenever one is supplied (zero included)
\* and 10 otherwise; models_returned is its length and total_models_found is n.
C10_Truncation ==
  ConsiderReturned =>
    LET params == response.call.args
        sorted == considerSorted(RespModels, params)
        n == Len(sorted)
        maxResults == IF "max_results" \in DOMAIN params THEN params["max_results"] ELSE 10
    IN  /\ Ids(RespValue.models) = SubSeq(Ids(sorted), 1, IF n < maxResults THEN n ELSE maxResults)
        /\ RespValue.models_returned = Len(RespValue.models)
        /\ RespValue.total_models_found = n

(* --------------------- single functions of the module ------------------- *)

OptPriceTexts == {{}} \cup {{t} : t \in PriceTexts}

\* pricing objects with any price text, or none, in the prompt and completion fields
RawPricings ==
  {[k \in {"prompt" : x \in p} \cup {"completion" : x \in c} |->
      IF k = "prompt" THEN CHOOSE x \in p : TRUE ELSE CHOOSE x \in c : TRUE] :
     p \in OptPriceTexts, c \in OptPriceTexts}

PricedRecord(pricing) ==
  [id |-> <<"r", "/", "1">>, canonical_slug |-> <<"r", "1">>, name |-> <<"R">>,
   description |-> << >>, context_length |-> 8000, created |-> 700,
   pricing |-> pricing,
   architecture |-> [input_modalities |-> <<"text">>, modality |-> "text->text"],
   supported_parameters |-> << >>]

RawRecords == Pool \cup {PricedRecord(p) : p \in RawPricings}

\* a record with every upstream field the server reads, and the records that lack any
\* of the fields that are not its identity
SparseRecords ==
  {[f \in {"id", "name", "context_length"} \cup present |->
      (PricedRecord([prompt |-> "0.000001", completion |-> "0.000002"])
         @@ ("top_provider" :> [max_completion_tokens |-> 4096, is_moderated |-> TRUE]))[f]] :
     present \in SUBSET {"pricing", "created", "architecture", "top_provider",
                         "supported_parameters", "description", "canonical_slug"}}

\* record lists without a repeated record, up to MaxFnLen long, and one with a repeat
FnCatalogs ==
  UNION {{c \in [1..n -> Pool] : \A i, j \in 1..n : i # j => c[i] # c[j]} : n \in 0..MaxFnLen}
    \cup {<<M2, M1, M2>>, [i \in 1..5 |-> GenModel(i, i = 2)]}

\* filter objects; a price limit is in micro-dollars per million tokens
FilterSets ==
  {EmptyObject,
   "free_only" :> TRUE,
   "free_only" :> FALSE,
   "max_price_per_1m" :> 0,
   "max_price_per_1m" :> 3000000,
   "max_price_per_1m" :> 7000000,
   "min_context" :> 0,
   "min_context" :> 100000,
   "max_context" :> 0,
   "max_context" :> 128000,
   "provider" :> [isArray |-> FALSE, text |-> <<"A">>],
   "provider" :> [isArray |-> FALSE, text |-> << >>],
   "provider" :> [isArray |-> TRUE, list |-> << <<"a">>, <<"B">> >>],
   "provider" :> [isArray |-> TRUE, list |-> << >>],
   "has_vision" :> TRUE,
   "has_tools" :> TRUE,
   "has_reasoning" :> TRUE,
   "modality" :> "text->text",
   ("max_price_per_1m" :> 3000000) @@ ("min_context" :> 100000),
   ("free_only" :> TRUE) @@ ("max_context" :> 128000)}

\* request texts: nothing, each keyword, each two keywords with a space between, and
\* keywords in capitals
RequestTexts ==
  {<< >>, <<"C", "H", "E", "A", "P">>, <<"I", "m", "a", "g", "e">>, <<"h", "i">>}
    \cup {KW[k] : k \in DOMAIN KW}
    \cup {KW[j] \o <<" ">> \o KW[k] : j, k \in DOMAIN KW}

FnCalls ==
  {[fn |-> "formatModelData", model |-> m] : m \in RawRecords \cup SparseRecords}
    \cup {[fn |-> "parseRequest", request |-> t] : t \in RequestTexts}
    \cup {[fn |-> "considerRanked", models |-> c, terms |-> t] :
            c \in FnCatalogs
                   \cup {<<M1, M3, [M4 EXCEPT !.name = <<"G", "P", "T", " ", "c", "h", "a", "t">>], M2>>,
                         <<M2, [M6 EXCEPT !.id = KW.chat \o <<"/">> \o KW.gpt], M1>>},
            t \in {<< >>, <<KW.chat>>, <<KW.chat, KW.gpt>>, <<KW.vision, KW.multimodal>>,
                   <<KW.gpt, KW.reasoning, KW.chat>>}}
    \cup {[fn |-> "sortModels", models |-> c, sortBy |-> by] :
            c \in FnCatalogs,
            by \in {"price", "context", "created", "name", "relevance", "newest"}}
    \cup {[fn |-> "considerModels", models |-> <<M5, M2, M1, M6>>, params |-> p] :
            p \in {Spread("request" :> t, by) :
                     t \in {<< >>, KW.cheap, KW.long_context},
                     by \in {EmptyObject, "sort_by" :> "context", "sort_by" :> "name",
                             "sort_by" :> "price", "sort_by" :> "created"}}}
    \cup {[fn |-> "getModel", models |-> <<M1, m>>, model_id |-> id] :
            m \in SparseRecords, id \in {<<"r", "/", "1">>, <<"r", "1">>, <<"G">>, <<"z", "z">>}}
    \cup {[fn |-> "considerModels", models |-> c, params |-> "request" :> t] :
            c \in UNION {{<<m>>, <<M2, m>>} : m \in SparseRecords},
            t \in {<< >>, KW.free, KW.cheap, KW.chat}}
    \cup {[fn |-> "applyFilters", models |-> c, filters |-> f] :
            c \in FnCatalogs, f \in FilterSets}
    \cup {[fn |-> "calculateCost", model |-> formatModelData(m), workload |-> w] :
            m \in RawRecords, w \in Workloads}
    \cup {[fn |-> "generateComparison", models |-> c, workload |-> w] :
            c \in FnCatalogs, w \in {{}, {WorkloadTokens}}}

InitFn ==
  /\ ServerInit
  /\ fnCall \in FnCalls
  /\ fnResult = {}

server == <<modelsCache, clock, ticks, nfetch, completed, slot, response>>

ApplyFormatModelData ==
  /\ fnCall.fn = "formatModelData" /\ fnResult = {}
  /\ fnResult' = IF formatModelDataThrows(fnCall.model) # {}
                  THEN {Threw(CHOOSE e \in formatModelDataThrows(fnCall.model) : TRUE)}
                  ELSE {Gave(formatModelData(fnCall.model))}
  /\ UNCHANGED <<server, fnCall>>

ApplyParseRequest ==
  /\ fnCall.fn = "parseRequest" /\ fnResult = {}
  /\ fnResult' = {parseRequest(fnCall.request)}
  /\ UNCHANGED <<server, fnCall>>

\* the keyword search of considerModels: searchModels, the sort by score, the records
ApplyConsiderRanked ==
  /\ fnCall.fn = "considerRanked" /\ fnResult = {}
  /\ fnResult' = {considerRanked(fnCall.models, fnCall.terms)}
  /\ UNCHANGED <<server, fnCall>>

ApplySortModels ==
  /\ fnCall.fn = "sortModels" /\ fnResult = {}
  /\ fnResult' = {sortModels(fnCall.models, fnCall.sortBy)}
  /\ UNCHANGED <<server, fnCall>>

\* getModel once fetchModels has returned the records
ApplyGetModel ==
  /\ fnCall.fn = "getModel" /\ fnResult = {}
  /\ fnResult' = {getModel(fnCall.models, fnCall.model_id)}
  /\ UNCHANGED <<server, fnCall>>

\* considerModels once fetchModels has returned the records, freshly fetched
ApplyConsiderModels ==
  /\ fnCall.fn = "considerModels" /\ fnResult = {}
  /\ fnResult' = {considerModels(FreshResult(fnCall.models), fnCall.params)}
  /\ UNCHANGED <<server, fnCall>>

\* with the value, the caller's array as the call has left it
ApplyFilters ==
  /\ fnCall.fn = "applyFilters" /\ fnResult = {}
  /\ fnResult' = {[value |-> applyFilters(fnCall.models, fnCall.filters),
                   input |-> applyFiltersInput(fnCall.models, fnCall.filters)]}
  /\ UNCHANGED <<server, fnCall>>

ApplyCalculateCost ==
  /\ fnCall.fn = "calculateCost" /\ fnResult = {}
  /\ fnResult' = {calculateCost(fnCall.model, fnCall.workload)}
  /\ UNCHANGED <<server, fnCall>>

ApplyGenerateComparison ==
  /\ fnCall.fn = "generateComparison" /\ fnResult = {}
  /\ fnResult' = {generateComparison(fnCall.models, fnCall.workload)}
  /\ UNCHANGED <<server, fnCall>>

NextFn ==
  \/ ApplyFormatModelData
  \/ ApplyParseRequest
  \/ ApplyConsiderRanked
  \/ ApplySortModels
  \/ ApplyGetModel
  \/ ApplyConsiderModels
  \/ ApplyFilters
  \/ ApplyCalculateCost
  \/ ApplyGenerateComparison

\* one function applied once to one argument list
SpecFn == InitFn /\ [][NextFn]_vars

(* -------------------------------- claims ------------------------------- *)

\* what the examined function gave back
FnValue == CHOOSE v \in fnResult : TRUE

FnApplied(fn) == fnCall.fn = fn /\ fnResult # {}

\* formatModelData has returned a record
Formatted == FnApplied("formatModelData") /\ ~FnValue.threw

\* the identifiers a consider_models call names, << >> when it names none
NamedIds(call) ==
  IF "model_ids" \in DOMAIN call.args THEN call.args["model_ids"] ELSE << >>

\* the records of the snapshot that one of the identifiers names, in snapshot order
NamedRecords(records, ids) ==
  SelectSeq(records, LAMBDA m : \E i \in 1..Len(ids) : considerModelIdMatches(m, ids[i]))

\* C11: when 2 to 5 model identifiers are given to consider_models, the response carries a
\* comparison whose rows are the records those identifiers match (by id, canonical_slug or
\* id ignoring case), whatever max_results cuts the displayed list to.
C11_ComparisonOverNamed ==
  (ConsiderEnded /\ Len(NamedIds(response.call)) \in 2..5)
    => /\ ~RespPayload.isError
       /\ RespValue.comparison # {}
       /\ \A c \in RespValue.comparison :
            [i \in 1..Len(c.pricing) |-> c.pricing[i][1]]
              = [i \in 1..Len(NamedRecords(RespModels, NamedIds(response.call))) |->
                   NamedRecords(RespModels, NamedIds(response.call))[i].name]

\* the errors that building a comparison throws by accident
ComparisonTypeErrors ==
  {"Cannot read properties of undefined (reading 'toFixed')",
   "Reduce of empty array with no initial value"}

\* C13: a comparison asked for with 1 identifier or with more than 5 fails with an error
\* about the size of the comparison, and no comparison is produced.
C13_InvalidComparisonSize ==
  (ConsiderEnded /\ Len(NamedIds(response.call)) \in {1} \cup (6..MaxLong))
    => /\ RespPayload.isError
       /\ RespPayload.content[2] \notin ComparisonTypeErrors

\* C15: when nothing is left after filtering, naming and searching, consider_models
\* returns a response with an empty model list and without the comparison and
\* cost_analysis blocks; it does not fail.
C15_EmptyIsNormal ==
  (ConsiderEnded /\ Len(considerSearchResults(RespModels, response.call.args)) = 0)
    => /\ ~RespPayload.isError
       /\ RespValue.models = << >>
       /\ RespValue.comparison = {}
       /\ RespValue.cost_analysis = {}

\* C12: generateComparison over 2 to 5 records succeeds and gives a pricing table and a
\* capabilities table (and a cost table when a workload is given) with one row per input
\* record, row i describing record i.
C12_AlignedTables ==
  (FnApplied("generateComparison") /\ Len(fnCall.models) \in 2..5)
    => /\ ~FnValue.threw
       /\ [i \in 1..Len(FnValue.value.pricing) |-> FnValue.value.pricing[i][1]]
            = [i \in 1..Len(fnCall.models) |-> fnCall.models[i].name]
       /\ [i \in 1..Len(FnValue.value.capabilities) |-> FnValue.value.capabilities[i][1]]
            = [i \in 1..Len(fnCall.models) |-> fnCall.models[i].name]
       /\ (fnCall.workload # {}) = (FnValue.value.cost_estimate # {})
       /\ \A e \in FnValue.value.cost_estimate :
            [i \in 1..Len(e.rows) |-> e.rows[i][1]]
              = [i \in 1..Len(fnCall.models) |-> fnCall.models[i].name]

\* the records are ranked by r(i) <= r(j); the first index whose rank no record is below
\* (total price; context length and number of supported parameters, negated)
FirstLeast(rank) ==
  CHOOSE i \in DOMAIN rank :
    /\ \A j \in DOMAIN rank : rank[i] <= rank[j]
    /\ \A k \in 1..(i - 1) : \E j \in DOMAIN rank : rank[k] > rank[j]

\* C14: in the summary of a comparison, cheapest, highest_context and most_capable each
\* name the earliest input record among those with the least total price, the greatest
\* context length and the most supported parameters; two records of equal price give the
\* first one as cheapest.
C14_FirstOccurrenceTieBreak ==
  (FnApplied("generateComparison") /\ Len(fnCall.models) \in 2..5
     /\ \A i \in 1..Len(fnCall.models) : totalPrice(fnCall.models[i]) # NaN)
    => /\ ~FnValue.threw
       /\ FnValue.value.summary.cheapest
            = fnCall.models[FirstLeast([i \in 1..Len(fnCall.models) |->
                              totalPrice(fnCall.models[i]).near * 4
                                + totalPrice(fnCall.models[i]).ulps])].id
       /\ FnValue.value.summary.highest_context
            = fnCall.models[FirstLeast([i \in 1..Len(fnCall.models) |->
                              0 - fnCall.models[i].context_length])].id
       /\ FnValue.value.summary.most_capable
            = fnCall.models[FirstLeast([i \in 1..Len(fnCall.models) |->
                  0 - Len(OrEmpty(Field(fnCall.models[i], "supported_parameters")))])].id

\* the components a breakdown can report, in the order of the claim
CostComponents ==
  <<"prompt_cost", "completion_cost", "image_cost", "daily_request_cost",
    "monthly_request_cost">>

\* the sum of the components a breakdown reports
BreakdownSum(breakdown) ==
  LET S[i \in 0..Len(CostComponents)] ==
        IF i = 0 THEN Dbl(0)
        ELSE IF CostComponents[i] \in DOMAIN breakdown
             THEN NumAdd(S[i - 1], breakdown[CostComponents[i]]) ELSE S[i - 1]
  IN  S[Len(CostComponents)]

\* the workload field behind each component
ComponentField(key) ==
  CASE key = "prompt_cost" -> {"prompt_tokens"}
    [] key = "completion_cost" -> {"completion_tokens"}
    [] key = "image_cost" -> {"images"}
    [] key = "daily_request_cost" -> {"requests_per_day"}
    [] key = "monthly_request_cost" -> {"requests_per_day", "requests_per_month"}

\* C16: the total of a cost estimate is the sum of all components its breakdown reports;
\* prompt_cost is the prompt price times prompt_tokens, completion_cost the completion
\* price times completion_tokens; a workload field that is absent adds no component.
C16_TotalIsSumOfBreakdown ==
  FnApplied("calculateCost")
    => /\ FnValue.total = BreakdownSum(FnValue.breakdown)
       /\ \A k \in DOMAIN FnValue.breakdown : ComponentField(k) \cap DOMAIN fnCall.workload # {}
       /\ "prompt_cost" \in DOMAIN FnValue.breakdown
            => FnValue.breakdown["prompt_cost"]
                 = NumMul(parsePriceNumber({fnCall.model.pricing.prompt}),
                          fnCall.workload["prompt_tokens"])
       /\ "completion_cost" \in DOMAIN FnValue.breakdown
            => FnValue.breakdown["completion_cost"]
                 = NumMul(parsePriceNumber({fnCall.model.pricing.completion}),
                          fnCall.workload["completion_tokens"])

\* C17: for every formatted record, is_free holds exactly when the prompt price and the
\* completion price are both 0, and total_per_1m equals prompt_per_1m + completion_per_1m,
\* whatever the raw pricing was.
C17_FreeAndTotal ==
  Formatted
    => /\ FnValue.value.is_free = (FnValue.value.pricing.prompt = Dbl(0)
                                      /\ FnValue.value.pricing.completion = Dbl(0))
       /\ FnValue.value.pricing.total_per_1m
            = NumAdd(FnValue.value.pricing.prompt_per_1m,
                     FnValue.value.pricing.completion_per_1m)

\* the provider values a filter lists
ListedProviders(filters) ==
  IF "provider" \notin DOMAIN filters THEN << >>
  ELSE IF filters["provider"].isArray THEN filters["provider"].list
  ELSE IF filters["provider"].text = << >> THEN << >>
  ELSE <<filters["provider"].text>>

\* a provider filter that lists something (an empty text lists nothing and asks nothing)
ProviderPresent(filters) ==
  "provider" \in DOMAIN filters
    /\ (filters["provider"].isArray \/ filters["provider"].text # << >>)

\* does the record satisfy every field the filter object has
SatisfiesEvery(m, filters) ==
  /\ ProviderPresent(filters)
       => \E i \in 1..Len(ListedProviders(filters)) :
            toLowerCase(formatModelData(m).provider) = toLowerCase(ListedProviders(filters)[i])
  /\ TruthyBool(Field(filters, "free_only")) => formatModelData(m).is_free
  /\ "min_context" \in DOMAIN filters => m.context_length >= filters["min_context"]
  /\ "max_context" \in DOMAIN filters => m.context_length <= filters["max_context"]
  /\ "max_price_per_1m" \in DOMAIN filters
       => NumLe(formatModelData(m).pricing.total_per_1m, Dbl(filters["max_price_per_1m"]))
  /\ TruthyBool(Field(filters, "has_vision"))
       => arrIncludes({formatModelData(m).input_modalities}, "image")
  /\ TruthyBool(Field(filters, "has_tools"))
       => arrIncludes({formatModelData(m).supported_parameters}, "tools")
  /\ TruthyBool(Field(filters, "has_reasoning"))
       => arrIncludes({formatModelData(m).supported_parameters}, "reasoning")
  /\ "modality" \in DOMAIN filters => formatModelData(m).modality = {filters["modality"]}

\* C18: applyFilters returns exactly the records that satisfy every field present in the
\* filter object; a price limit, a maximum or a minimum context given as any number from 0
\* up is applied (total_per_1m <= limit, context_length <= maximum, >= minimum), and a
\* provider filter keeps the records whose provider is one of the listed values.
C18_EveryPresentFilter ==
  FnApplied("applyFilters")
    => FnValue.value = SelectSeq(fnCall.models, LAMBDA m : SatisfiesEvery(m, fnCall.filters))

\* is `sub` what is left of `seq` when some of its elements are taken out
RECURSIVE IsSubsequence(_, _)
IsSubsequence(sub, seq) ==
  IF Len(sub) = 0 THEN TRUE
  ELSE IF Len(seq) = 0 THEN FALSE
  ELSE IF Head(sub) = Head(seq) THEN IsSubsequence(Tail(sub), Tail(seq))
  ELSE IsSubsequence(sub, Tail(seq))

\* C19: what applyFilters returns is its input with some records taken out: only input
\* records, none more often than in the input, in their input order; and the array that
\* was passed in is the same afterwards.
C19_OrderPreserving ==
  FnApplied("applyFilters")
    => /\ IsSubsequence(FnValue.value, fnCall.models)
       /\ FnValue.input = fnCall.models

\* C19 witness: of three records the middle one is filtered out and the outer two are
\* returned in their order
C19_Witness ==
  /\ FnApplied("applyFilters")
  /\ Len(fnCall.models) = 3
  /\ FnValue.value = <<fnCall.models[1], fnCall.models[3]>>
  /\ fnCall.models[1] # fnCall.models[3]

\* a price text that is absent, empty, a zero or no number at all
NoPriceText(opt) == opt \subseteq {"", "0", "0.0", "n/a"}

\* C20: a raw record whose prompt and completion price are each absent, zero or text that
\* is no number is formatted with prompt and completion price 0 and is_free true, and the
\* free_only filter keeps it.
C20_UnparsableIsZero ==
  (Formatted
     /\ NoPriceText(PriceField(fnCall.model.pricing, "prompt"))
     /\ NoPriceText(PriceField(fnCall.model.pricing, "completion")))
    => /\ FnValue.value.pricing.prompt = Dbl(0)
       /\ FnValue.value.pricing.completion = Dbl(0)
       /\ FnValue.value.is_free
       /\ applyFilters(<<fnCall.model>>, "free_only" :> TRUE) = <<fnCall.model>>

\* the fields of a raw record that are not its identity
OptionalFields ==
  {"pricing", "created", "architecture", "top_provider", "supported_parameters",
   "description", "canonical_slug"}

\* a record that has its identity and lacks some of the other fields
IsSparse(m) ==
  {"id", "name", "context_length"} \subseteq DOMAIN m /\ OptionalFields \ DOMAIN m # {}

\* C21: formatModelData returns a record for every raw record that lacks any of pricing,
\* created, architecture, top_provider, supported_parameters, description and
\* canonical_slug, the missing values absent or defaulted (no modalities, no parameters,
\* prices 0); getModel and considerModels over records that include such a one do not
\* fail because of it: getModel fails only when nothing matches.
C21_NormalizeNeverFails ==
  /\ (FnApplied("formatModelData") /\ IsSparse(fnCall.model))
       => /\ ~FnValue.threw
          /\ FnValue.value.id = fnCall.model.id
          /\ "architecture" \notin DOMAIN fnCall.model => FnValue.value.input_modalities = << >>
          /\ "supported_parameters" \notin DOMAIN fnCall.model
               => FnValue.value.supported_parameters = << >>
          /\ "pricing" \notin DOMAIN fnCall.model => FnValue.value.pricing.prompt = Dbl(0)
  /\ (FnApplied("considerModels") /\ \E i \in 1..Len(fnCall.models) : IsSparse(fnCall.models[i]))
       => ~FnValue.threw
  /\ (FnApplied("getModel") /\ \E i \in 1..Len(fnCall.models) : IsSparse(fnCall.models[i]))
       => (FnValue.threw => getModelFind(fnCall.models, fnCall.model_id) = {})

\* C22: the provider of a formatted record is the part of its id before the first "/";
\* when the id has no "/", the provider is the empty string.
C22_ProviderPrefix ==
  Formatted
    => IF \E i \in 1..Len(fnCall.model.id) : fnCall.model.id[i] = "/"
       THEN \E k \in 1..Len(fnCall.model.id) :
              /\ fnCall.model.id[k] = "/"
              /\ \A j \in 1..(k - 1) : fnCall.model.id[j] # "/"
              /\ FnValue.value.provider = SubSeq(fnCall.model.id, 1, k - 1)
       ELSE FnValue.value.provider = << >>

\* does the case-folded request text contain the keyword
Mentions(keyword) == includes(toLowerCase(fnCall.request), keyword)

\* C23: whenever the case-folded request contains "cheap", "affordable" or "low cost", the
\* parsed sort preference is price, whatever else the text contains; and free_only,
\* has_vision, has_tools, has_reasoning and min_context = 100000 are each set exactly when
\* one of their own keywords occurs.
C23_IndependentRules ==
  FnApplied("parseRequest")
    => /\ (Mentions(KW.cheap) \/ Mentions(KW.affordable) \/ Mentions(KW.low_cost))
            => FnValue.sort_preference = "price"
       /\ TruthyBool(Field(FnValue.filters, "free_only")) = Mentions(KW.free)
       /\ TruthyBool(Field(FnValue.filters, "has_vision"))
            = (Mentions(KW.vision) \/ Mentions(KW.image) \/ Mentions(KW.multimodal))
       /\ TruthyBool(Field(FnValue.filters, "has_tools"))
            = (Mentions(KW.tool) \/ Mentions(KW.function))
       /\ TruthyBool(Field(FnValue.filters, "has_reasoning"))
            = (Mentions(KW.reasoning) \/ Mentions(KW.think))
       /\ (Field(FnValue.filters, "min_context") = {100000})
            = (Mentions(KW.long_context) \/ Mentions(KW.large_context))
       /\ Field(FnValue.filters, "min_context") \subseteq {100000}

\* the keywords in the order in which the rules look for them
DetectionOrder ==
  <<KW.vision, KW.image, KW.multimodal, KW.tool, KW.tools, KW.function, KW.reasoning,
    KW.think, KW.instruct, KW.chat, KW.openai, KW.anthropic, KW.claude, KW.gpt, KW.meta,
    KW.llama, KW.google, KW.gemini>>

\* C24: the search terms of a parsed request hold no token twice, are in the order of
\* the rules that found them, and hold only tokens that occur in the case-folded text.
C24_SearchTermsMatched ==
  FnApplied("parseRequest")
    => /\ \A i, j \in 1..Len(FnValue.search_terms) :
            i < j => FnValue.search_terms[i] # FnValue.search_terms[j]
       /\ \A i \in 1..Len(FnValue.search_terms) :
            /\ \E r \in 1..Len(DetectionOrder) : DetectionOrder[r] = FnValue.search_terms[i]
            /\ Mentions(FnValue.search_terms[i])
       /\ \A i, j \in 1..Len(FnValue.search_terms) :
            i < j => \E r, q \in 1..Len(DetectionOrder) :
                       /\ r < q
                       /\ DetectionOrder[r] = FnValue.search_terms[i]
                       /\ DetectionOrder[q] = FnValue.search_terms[j]

\* how many of the terms occur, case ignored, in the name, the description or the id
TermsFound(m, terms) ==
  Cardinality({i \in 1..Len(terms) :
                 \/ includes(toLowerCase(m.name), toLowerCase(terms[i]))
                 \/ includes(toLowerCase(m.description), toLowerCase(terms[i]))
                 \/ includes(toLowerCase(m.id), toLowerCase(terms[i]))})

\* C25: with search terms, the ranked list is exactly the records in which at least one
\* term occurs, those with more matched terms first and those with equally many in their
\* input order; without search terms it is the input.
C25_Ranking ==
  FnApplied("considerRanked")
    => IF Len(fnCall.terms) = 0 THEN FnValue = fnCall.models
       ELSE /\ Len(FnValue)
                 = Len(SelectSeq(fnCall.models, LAMBDA m : TermsFound(m, fnCall.terms) > 0))
            /\ \A i, j \in 1..Len(FnValue) :
                 i < j => TermsFound(FnValue[i], fnCall.terms)
                            >= TermsFound(FnValue[j], fnCall.terms)
            /\ \A n \in 1..Len(fnCall.terms) :
                 SelectSeq(FnValue, LAMBDA m : TermsFound(m, fnCall.terms) = n)
                   = SelectSeq(fnCall.models, LAMBDA m : TermsFound(m, fnCall.terms) = n)

\* C25 witness: a record in which two terms occur is ranked before one that came before
\* it with one term, and a record in which no term occurs is left out
C25_Witness ==
  /\ FnApplied("considerRanked")
  /\ Len(FnValue) > 1
  /\ Len(FnValue) < Len(fnCall.models)
  /\ TermsFound(FnValue[1], fnCall.terms) = 2
  /\ TermsFound(fnCall.models[1], fnCall.terms) = 1

\* the key a criterion orders by
SortKey(m, sortBy) ==
  CASE sortBy = "price" -> totalPrice(m)
    [] sortBy = "context" -> m.context_length
    [] sortBy = "created" -> m.created
    [] sortBy = "name" -> m.name
    [] OTHER -> 0

\* may a come before b under the criterion
InOrder(a, b, sortBy) ==
  CASE sortBy = "price" -> ~NumLt(totalPrice(b), totalPrice(a))
    [] sortBy = "context" -> a.context_length >= b.context_length
    [] sortBy = "created" -> a.created >= b.created
    [] sortBy = "name" -> ~localeCompareGt(a.name, b.name)
    [] OTHER -> TRUE

\* the criterion consider_models is to sort by: the explicit one if given, else the parsed one
ClaimedCriterion(params) ==
  IF "sort_by" \in DOMAIN params THEN params["sort_by"]
  ELSE parseRequest(params["request"]).sort_preference

\* C26: sortModels returns a rearrangement of its input that is ascending by total price
\* for 'price', descending by context length for 'context', descending by creation time
\* for 'created', ascending by name for 'name', with records of equal key in their input
\* order, and the input order for any other criterion; consider_models sorts by the
\* explicit sort_by if there is one, else by the parsed sort preference.
C26_SortOrder ==
  /\ FnApplied("sortModels")
       => /\ Len(FnValue) = Len(fnCall.models)
          /\ \A i, j \in 1..Len(FnValue) :
               i < j => InOrder(FnValue[i], FnValue[j], fnCall.sortBy)
          /\ \A k \in 1..Len(fnCall.models) :
               SelectSeq(FnValue, LAMBDA m : SortKey(m, fnCall.sortBy)
                                              = SortKey(fnCall.models[k], fnCall.sortBy))
                 = SelectSeq(fnCall.models, LAMBDA m : SortKey(m, fnCall.sortBy)
                                                        = SortKey(fnCall.models[k], fnCall.sortBy))
          /\ fnCall.sortBy \notin {"price", "context", "created", "name"}
               => FnValue = fnCall.models
  /\ (FnApplied("considerModels") /\ ~FnValue.threw)
       => Ids(FnValue.value.models)
            = Ids(SliceFromZero(sortModels(considerSearchResults(fnCall.models, fnCall.params),
                                           ClaimedCriterion(fnCall.params)),
                                DefaultMaxResults))

\* C27: sorting what sortModels returned, by the same criterion, changes nothing.
C27_SortIdempotent ==
  FnApplied("sortModels") => sortModels(FnValue, fnCall.sortBy) = FnValue

\* C27 witness: sortModels has rearranged a list of three or more records
C27_Witness ==
  /\ FnApplied("sortModels")
  /\ Len(fnCall.models) >= 3
  /\ FnValue # fnCall.models
  /\ FnValue[1] = fnCall.models[Len(fnCall.models)]


\* this step ends a fetch with the records of the upstream
FetchSucceeded == \E r \in Slots : FetchEnded(r) /\ response'.body # {}

\* C28: replace, never mutate: the records a call is given are the fetched array as it was
\* fetched or stored, no filter, search, sort, truncation or comparison step of a call
\* changes the stored array, a successful fetch stores its own records in place of the old
\* ones, and every step that is not a successful fetch (cache hits among them) leaves the
\* stored records and timestamp as the last successful fetch wrote them.
C28_ReplaceNeverMutate ==
  [][/\ ~FetchSucceeded => modelsCache' = modelsCache
     /\ \A r \in Slots :
          (FetchEnded(r) /\ response'.body # {})
            => /\ modelsCache'.data = response'.body
               /\ modelsCache'.timestamp = {slot[r].now}
               /\ modelsCache'.dataBy = slot[r].fid
               /\ \A f \in response'.fetched : {f.models} = response'.body
     /\ ReturnsAtOnce
          => \A f \in response'.fetched : {f.models} = modelsCache'.data]_vars

\* C28 witness: a call with a filter was served from the cache and answered with fewer
\* records than the snapshot, which a second fetch had stored in place of the first
C28_Witness ==
  /\ response.returned
  /\ response.attempts = 0
  /\ response.call = ConsiderCall(("request" :> << >>) @@ ("filters" :> ("free_only" :> TRUE)))
  /\ modelsCache.data = {<<M1, M2>>}
  /\ modelsCache.dataBy = 2
  /\ \E p \in response.payload : ~p.isError /\ p.content[2].total_models_found = 1

\* the fetch that ended last has failed
LastFetchFailed ==
  /\ response.returned
  /\ FetchingTool(response.call)
  /\ response.attempts = 1
  /\ response.body = {}

\* C29: a fetch that fails (status, transport or body), forced or not, leaves the stored
\* snapshot and its timestamp unchanged; a call without forceRefresh that follows the
\* failure while the snapshot is younger than the TTL is served from that snapshot with
\* cached = true and without a fetch.
C29_FailedFetchKeepsSnapshot ==
  [][/\ \A r \in Slots :
          (FetchEnded(r) /\ response'.body = {})
            => /\ modelsCache' = modelsCache
               /\ response'.fetched = {}
     /\ (LastFetchFailed /\ SnapshotFresh)
          => /\ \A r \in Slots : FetchIssued(r) => CallForceRefresh(slot'[r].call)
             /\ (ReturnsAtOnce /\ ~CallForceRefresh(response'.call))
                  => /\ \E f \in response'.fetched :
                          /\ f.cached
                          /\ {f.models} = modelsCache.data
                     /\ nfetch' = nfetch
                     /\ modelsCache' = modelsCache]_vars

\* C29 witness: a forced refresh has failed while a snapshot younger than the TTL is held
C29_Witness ==
  /\ LastFetchFailed
  /\ CallForceRefresh(response.call)
  /\ SnapshotFresh

\* C30: the timestamp of the stored snapshot never decreases, whatever the order in which
\* concurrent calls start and their fetches complete.
C30_TimestampNeverDecreases ==
  [][\A old \in modelsCache.timestamp, new \in modelsCache'.timestamp : new >= old]_vars

====
